---- MODULE Spec2Model ----
(***************************************************************************)
(* Model of the component loader / initialization sequencer of the résumé  *)
(* site (js/components.js in its two revisions, and main.js).              *)
(*                                                                         *)
(* One browser page load is one behaviour.  The DOMContentLoaded handler   *)
(* runs synchronously up to its first await; every later step is the       *)
(* continuation of one await (a fetch settling, a body read settling,      *)
(* Promise.allSettled resolving, the carousel script loading) or a timer.  *)
(* Markup is modelled by what it is, not by its text: <<"html", n>> is the *)
(* content of the fragment file of n, <<"fallback", n>> the hard-coded     *)
(* fallback string of n, <<"generic", n>> the generic error placeholder    *)
(* (whose text embeds n), <<"empty", "">> the blank placeholder of the     *)
(* shell page.                                                             *)
(***************************************************************************)
EXTENDS Integers, Naturals, FiniteSets, Sequences, TLC

VARIABLES
  rev,          \* which revision of the loader this page runs
  hasContainer, \* DOM: name -> does the element '<name>-container' exist
  innerHTML,    \* DOM: name -> content of the element '<name>-container'
  loadPc,       \* name -> position inside that name's loadComponent call
  promise,      \* name -> state of the promise returned by loadComponent
  components,   \* App.components: name -> status entry
  console,      \* console output: set of <<level, message, name>>
  pc,           \* position of the DOMContentLoaded handler
  summary,      \* what loadAllComponents logged and returned
  showHobbies,  \* App.config.showHobbies
  carousel,     \* App.components entry 'carousel' and the gallery fallback
  isLoaded,     \* App.isLoaded
  coreInitialized, \* App.coreInitialized
  loadingScreen,   \* DOM: content/visibility of #loading-screen
  mainContent,     \* DOM: visibility of #main-content
  pageError,       \* the error the handler's catch block received, if any
  timers,       \* pending setTimeout callbacks
  fetches,      \* name -> number of fetch() calls made for that name's path
  reloads,      \* name -> number of App.utils.reloadComponent(name) calls
  reloadPc,     \* name -> position inside a reloadComponent(name) call
  ThemeSystem,  \* theme.js: the ThemeSystem state object
  dataTheme,    \* DOM: data-theme of document.documentElement and of body
  companyAttr,  \* DOM: data-company-theme of document.documentElement
  localStorage, \* key -> stored string, Null when the key is absent
  systemTheme,  \* what the prefers-color-scheme media query reports
  headerScript, \* did the inline script of header.html run in this page
  themeTimers,  \* pending setTimeout(initializeThemeSystem, 100) callbacks
  loadEvent,    \* has the window load event been dispatched
  lastOp,       \* the last operation that acted on the theme, when it is
                \* initializeThemeSystem, toggleTheme or a saving setTheme
  toggleRun,    \* the toggles made in succession and the values before them
  themeInits,   \* runs of the body of initializeThemeSystem past its guard
  carouselStatic,  \* does the shell page load hobbies-carousel.js itself
  hasGallery,      \* does components/hobbies.html carry a .photo-gallery
  photoData,       \* DOM: the #instagram-photos-data script of the gallery
  CarouselState,   \* hobbies-carousel.js: the CarouselState object
  carouselListeners,   \* click listeners on each of the prev/next buttons
  carouselInitialized, \* App.carouselInitialized
  bootTimers,      \* pending timers of hobbies-carousel.js and of the retry
  navigationInits, \* runs of initializeNavigation, each of which adds one
                   \* click listener to .mobile-menu-toggle
  mobileMenuOpen,  \* NavigationState.mobileMenuOpen
  interactionsPoll,  \* the initWhenReady poll of interactions.js
  interactionsInits, \* runs of initializeAllInteractions, each of which
                     \* adds one click listener to every expand button
  expandListeners, \* click listeners on the expand button
  pendingToggles,  \* debounced toggleExpandableItem calls waiting to fire
  expandedItems,   \* InteractionState.expandedItems: a set of item ids
  clicks,          \* clicks the visitor made on the modelled controls
  lastClick,       \* the last click and what its listeners did
  animationsRev,   \* which revision of animations.js the page runs
  animationsInitialized, \* has waitForComponents resolved and the
                         \* animation layer initialized
  menuDom,         \* what the mobile menu wrote to the toggle, the overlay
                   \* and the body
  innerWidth,      \* window.innerWidth
  mobileUserAgent, \* does navigator.userAgent match the mobile pattern
  appIsMobile,     \* App.isMobile
  detectedWidth,   \* window.innerWidth when detectMobile last ran
  resizeTimer,     \* is the 250 ms timer of the resize listener pending
  touch,           \* startX and isDragging of initializeTouchGestures
  lastMenuEvent,   \* the last event the menu's listeners handled
  scrollTop,       \* window.pageYOffset
  activeSection,   \* NavigationState.activeSection
  activeLinks,     \* hrefs (without '#') of the nav links carrying 'active'
  scrollTimeouts,  \* per scroll listener: is its 16 ms timer pending
  observing,       \* did the IntersectionObserver take its first look
  observed,        \* the sections the observer last found intersecting
  pendingEntries,  \* intersecting entries the observer has yet to deliver
  scrolls,         \* scroll moves of the visitor
  liveIntervals,   \* autoplay intervals the browser is running
  navigatedWhile,  \* was autoplay on at the last manual navigation of
                   \* the gallery; "none" once autoplay is toggled on
  itemTitle,       \* per expandable item: the text of its .company-name or
                   \* .project-title element, 0 when it has none
  itemDom,         \* per expandable item: is its content displayed, its
                   \* aria-hidden, and aria-expanded of its button
  cleanupTimers,   \* the pending 400 ms timers of expandItem and
                   \* collapseItem, oldest first
  now,             \* Date.now()
  itemOp,          \* per expandable item: what its last toggle called
  lastToggle,      \* the last toggle and what it did
  toggles,         \* key presses of the visitor on expand buttons
  clipboardApi,    \* is navigator.clipboard defined
  copying,         \* per copy button: its data-copying
  copyRun,         \* per copy button: listener runs waiting at
                   \* `await navigator.clipboard.writeText`
  resetTimers,     \* per copy button: pending 500 ms timers
  copyLog,         \* per copy button: clicks accepted and toasts shown
  lastCopy,        \* the last click on a copy button
  copyClicks,      \* clicks of the visitor on copy buttons
  toastCounter,    \* toastManager.toastCounter
  toasts,          \* toastManager.toasts: the ids in the map
  toastDom,        \* the ids whose element is in .toast-container
  shown,           \* what show returned so far, with the durations
  autoHide,        \* the ids with a pending auto-hide timer
  removals,        \* the pending 300 ms timers of hide, oldest first
  explicitHides,   \* the ids hide was asked for by a click or a call
  lastHide,        \* the last call of hide
  hides,           \* close clicks and calls of hide and hideAll
  clock,           \* the time in milliseconds
  wrapped,         \* the function debounce or throttle returned: which
                   \* utility made it, with what arguments
  timeout,         \* debounce: is its `timeout` variable truthy
  inThrottle,      \* throttle: its `inThrottle` variable
  utilTimers,      \* the pending timers of the wrapped function, oldest
                   \* first, with the arguments `later` closes over
  utilCalls,       \* the calls of the wrapped function so far
  utilInvoked,     \* the invocations of the underlying function so far
  screenElapsed    \* the milliseconds that have passed at least since
                   \* hideLoadingScreen was called: the delays of its
                   \* timers that have fired

vars == <<rev, hasContainer, innerHTML, loadPc, promise, components, console,
          pc, summary, showHobbies, carousel, isLoaded, coreInitialized,
          loadingScreen, mainContent, pageError, timers,
          fetches, reloads, reloadPc,
          ThemeSystem, dataTheme, companyAttr, localStorage, systemTheme,
          headerScript, themeTimers, loadEvent, lastOp, toggleRun,
          themeInits,
          carouselStatic, hasGallery, photoData, CarouselState,
          carouselListeners, carouselInitialized, bootTimers,
          navigationInits, mobileMenuOpen, interactionsPoll,
          interactionsInits, expandListeners, pendingToggles,
              expandedItems, clicks,
          lastClick,
          animationsRev, animationsInitialized,
          menuDom, innerWidth, mobileUserAgent, appIsMobile, detectedWidth,
          resizeTimer, touch, lastMenuEvent,
          scrollTop, activeSection, activeLinks, scrollTimeouts, observing,
          observed, pendingEntries, scrolls,
          liveIntervals, navigatedWhile,
          itemTitle, itemDom, cleanupTimers, now, itemOp, lastToggle,
          toggles,
          clipboardApi, copying, copyRun, resetTimers, copyLog, lastCopy,
          copyClicks,
          toastCounter, toasts, toastDom, shown, autoHide, removals,
          explicitHides, lastHide, hides,
          clock, wrapped, timeout, inThrottle, utilTimers, utilCalls,
          utilInvoked,
          screenElapsed>>

\* the state of the loader and of the page it builds
loaderVars == <<rev, hasContainer, innerHTML, loadPc, promise, components,
                console, pc, summary, showHobbies, carousel, isLoaded,
                coreInitialized, loadingScreen, mainContent, pageError,
                timers, fetches>>

\* the state of calls made from outside the loader
reloadVars == <<reloads, reloadPc>>

\* the state the theme code reads and writes
themeVars == <<ThemeSystem, dataTheme, companyAttr, localStorage, systemTheme,
               headerScript, themeTimers, loadEvent, lastOp, toggleRun,
               themeInits>>

\* the state of the carousel, the navigation and the interactions
bootVars == <<carouselStatic, hasGallery, photoData, CarouselState,
              carouselListeners, carouselInitialized, bootTimers,
              navigationInits, mobileMenuOpen, interactionsPoll,
              interactionsInits, expandListeners, pendingToggles,
              expandedItems, clicks,
              lastClick>>

\* the state of the animation layer
animVars == <<animationsRev, animationsInitialized>>

\* the state of the mobile menu and of what closes it
menuVars == <<menuDom, innerWidth, mobileUserAgent, appIsMobile,
              detectedWidth, resizeTimer, touch, lastMenuEvent>>

\* the state of the active-section highlighting
navVars == <<scrollTop, activeSection, activeLinks, scrollTimeouts,
             observing, observed, pendingEntries, scrolls>>

\* the autoplay of the gallery as the browser and the visitor see it
autoVars == <<liveIntervals, navigatedWhile>>

\* the expandable items: ids, DOM, timers
expandVars == <<itemTitle, itemDom, cleanupTimers, now, itemOp, lastToggle,
                toggles>>

\* what of the expandable items initializeExpandCollapse leaves alone
expandNotDom == <<itemTitle, cleanupTimers, now, itemOp, lastToggle,
                  toggles>>

\* the copy buttons
copyVars == <<clipboardApi, copying, copyRun, resetTimers, copyLog,
              lastCopy, copyClicks>>

\* window.toastManager and its timers
toastVars == <<toastCounter, toasts, toastDom, shown, autoHide, removals,
               explicitHides, lastHide, hides>>

\* a function made by debounce or throttle, and the clock
utilVars == <<clock, wrapped, timeout, inThrottle, utilTimers, utilCalls,
              utilInvoked>>

\* the copy buttons and the toasts, the wrapped function, and the time
\* since hideLoadingScreen
noticeVars == <<copyVars, toastVars, utilVars, screenElapsed>>

\* the widgets other than the mobile menu
widgetsNotMenu == <<animVars, navVars, autoVars, expandVars, noticeVars>>

\* the widgets other than the active-section highlighting
widgetsNotNav == <<animVars, menuVars, autoVars, expandVars, noticeVars>>

\* the widgets other than the gallery's autoplay
widgetsNotAuto == <<animVars, menuVars, navVars, expandVars, noticeVars>>

\* the widgets other than the expandable items
widgetsNotExpand == <<animVars, menuVars, navVars, autoVars, noticeVars>>

\* the widgets other than the copy buttons and the toasts
widgetsNotNotice == <<animVars, menuVars, navVars, autoVars, expandVars>>

\* the state of the modules that are wired once the page is up
widgetVars == <<animVars, menuVars, navVars, autoVars, expandVars,
                noticeVars>>

\* what the loader's own steps leave alone
outsideLoader == <<reloadVars, themeVars, bootVars, widgetVars>>

(***************************************************************************)
(* Bounds                                                                  *)
(***************************************************************************)
\* the placeholder containers that may be missing from the shell page are
\* drawn from the first MaxMissing entries of COMPONENT_PATHS
MaxMissing == 2

(***************************************************************************)
(* Configuration of the three revisions                                    *)
(***************************************************************************)
Revisions == {"components_a", "components_b", "main"}

AllNames == {"header", "hero", "about", "skills", "experience", "projects",
             "hobbies", "contact"}

\* the entries of COMPONENT_PATHS in the order of the object literal
PathOrder(r) ==
  IF r = "components_b"
  THEN <<"hero", "about", "skills", "experience", "projects", "hobbies",
         "contact">>
  ELSE <<"header", "hero", "about", "skills", "experience", "projects",
         "hobbies", "contact">>

\* const COMPONENT_PATHS = { name: 'components/<name>.html', ... }
COMPONENT_PATHS(r) == {PathOrder(r)[i] : i \in 1..Len(PathOrder(r))}

\* the keys of the fallbackContent object literal in loadFallbackComponent
fallbackContent(r) ==
  CASE r = "components_a" -> AllNames
    [] r = "components_b" -> {"about", "skills", "experience", "projects",
                              "hobbies", "contact"}
    [] r = "main"         -> {"header", "hero", "about"}

\* the names whose container the shell page may lack
MayBeMissing(r) ==
  {PathOrder(r)[i] : i \in 1..(IF MaxMissing < Len(PathOrder(r))
                                THEN MaxMissing ELSE Len(PathOrder(r)))}

Empty == <<"empty", "">>

\* variant: no generic placeholder behind `fallbackContent[name]`
FallbackMarkup_NoGeneric(r, n) ==
  IF n \in fallbackContent(r) THEN <<"fallback", n>> ELSE Empty

\* fallbackContent[name] || `...Unable to load ${name} section...`
FallbackMarkup(r, n) ==
  IF n \in fallbackContent(r) THEN <<"fallback", n>> ELSE <<"generic", n>>

\* variant: without the `if (!container) return` guard
loadFallbackComponent_NoGuard(r, has, html, n) ==
  [html EXCEPT ![n] = FallbackMarkup(r, n)]

\* loadFallbackComponent(name, containerId): the new content of all containers
loadFallbackComponent(r, has, html, n) ==
  IF ~has[n] THEN html ELSE [html EXCEPT ![n] = FallbackMarkup(r, n)]

(***************************************************************************)
(* Status entries of App.components                                        *)
(***************************************************************************)
\* no entry in the Map (components_a/b), or the initial null (main)
NoEntry == [kind |-> "none", loaded |-> FALSE, error |-> "null"]

\* window.App.components.set(name, {container, loaded: true, error: null});
\* main stores the container element itself: App.components[name] = container
LoadedEntry(r) ==
  IF r = "main" THEN [kind |-> "container", loaded |-> FALSE, error |-> "null"]
  ELSE [kind |-> "status", loaded |-> TRUE, error |-> "null"]

\* variant: the error message is not recorded
ErrorEntry_NoMessage(r, old, message) ==
  IF r = "main" THEN old
  ELSE [kind |-> "status", loaded |-> FALSE, error |-> "null"]

\* window.App.components.set(name, {container, loaded: false,
\* error: error.message}); main records nothing on failure
ErrorEntry(r, old, message) ==
  IF r = "main" THEN old
  ELSE [kind |-> "status", loaded |-> FALSE, error |-> message]

\* value an async function's promise takes when its body returns v
Fulfilled(v) == IF v THEN "fulfilled_true" ELSE "fulfilled_false"

\* variant: the catch block rethrows
CatchReturn_Rethrow == "rejected"

\* the catch block of loadComponent ends in `return false`
CatchReturn == Fulfilled(FALSE)

\* the try block of loadComponent ends in `return true`
TryReturn == Fulfilled(TRUE)

\* what loadAllComponents reported: the counts it logs (and, in
\* components_a/b, returns); returned is set once it has done so
NoSummary == [returned |-> FALSE, successCount |-> 0, totalComponents |-> 0,
              warned |-> 0]

(***************************************************************************)
(* Theme system (js/theme.js), the other two theme togglers and the        *)
(* storage utilities (js/utils.js).  The functions of the code are         *)
(* operators from the part of the page they read and write,                *)
(*   [ThemeSystem, dataTheme, companyAttr, localStorage],                  *)
(* to its new value.                                                       *)
(***************************************************************************)
\* what getItem / getAttribute return for a missing key or attribute
Null == "null"

\* JavaScript truthiness of a string-or-null
Truthy(v) == v \notin {Null, ""}

\* a || b
Or(a, b) == IF Truthy(a) THEN a ELSE b

\* the keys looked at: the four preference keys, keys made by the storage
\* utilities, and a key of another script on the same origin
StorageKeys == {"theme", "company-theme", "show-hobbies", "show-photo",
                "resume_visits", "visits"}

\* the ends a key of StorageKeys can have after a prefix
KeyEnds == StorageKeys \cup {""}

\* key.startsWith(prefix)
startsWith(key, prefix) == \E end \in KeyEnds : key = prefix \o end

\* const ThemeSystem = {currentTheme: 'light', currentCompanyTheme: '',
\*                      isInitialized: false, ...}
ThemeSystemLoaded == [currentTheme |-> "light", currentCompanyTheme |-> "",
                      isInitialized |-> FALSE]

\* the part of the page the theme code works on, as it is now
ThemePage == [ThemeSystem |-> ThemeSystem, dataTheme |-> dataTheme,
              companyAttr |-> companyAttr, localStorage |-> localStorage]

\* the page takes the value p
Render(p) ==
  /\ ThemeSystem' = p.ThemeSystem
  /\ dataTheme' = p.dataTheme
  /\ companyAttr' = p.companyAttr
  /\ localStorage' = p.localStorage

\* loadThemePreferences(): syncs the state with the page, applies only the
\* company theme
loadThemePreferences(p, system) ==
  LET theme == Or(p.dataTheme.root, Or(p.localStorage["theme"], system))
      savedCompanyTheme == Or(p.localStorage["company-theme"], "pgd")
  IN [p EXCEPT !.ThemeSystem.currentTheme = theme,
               !.ThemeSystem.currentCompanyTheme = savedCompanyTheme,
               !.companyAttr = IF Truthy(savedCompanyTheme)
                               THEN savedCompanyTheme ELSE @]

\* variant: the guard never finds the system initialized
alreadyInitialized_Never(p) == FALSE

\* if (ThemeSystem.isInitialized) { ...; return; }
alreadyInitialized(p) == p.ThemeSystem.isInitialized

\* initializeThemeSystem(): guarded by ThemeSystem.isInitialized
initializeThemeSystem(p, system) ==
  IF alreadyInitialized(p) THEN p
  ELSE [loadThemePreferences(p, system)
          EXCEPT !.ThemeSystem.isInitialized = TRUE]

\* variant: the toggle always switches to dark
newTheme_AlwaysDark(currentTheme) == "dark"

\* const newTheme = currentTheme === 'light' ? 'dark' : 'light'
newTheme(currentTheme) == IF currentTheme = "light" THEN "dark" ELSE "light"

\* variant: the attribute of body is not set
setTheme_NoBody(p, theme, save) ==
  LET t == IF theme \in {"light", "dark"} THEN theme ELSE "light"
  IN [p EXCEPT !.ThemeSystem.currentTheme = t,
               !.dataTheme.root = t,
               !.localStorage = IF save THEN [@ EXCEPT !["theme"] = t] ELSE @]

\* setTheme(theme, save = true)
setTheme(p, theme, save) ==
  LET t == IF theme \in {"light", "dark"} THEN theme ELSE "light"
  IN [p EXCEPT !.ThemeSystem.currentTheme = t,
               !.dataTheme = [root |-> t, body |-> t],
               !.localStorage = IF save THEN [@ EXCEPT !["theme"] = t] ELSE @]

\* toggleTheme() of theme.js
toggleTheme(p) == setTheme(p, newTheme(p.ThemeSystem.currentTheme), TRUE)

\* setCompanyTheme(companyTheme, save = true)
setCompanyTheme(p, companyTheme, save) ==
  [p EXCEPT !.ThemeSystem.currentCompanyTheme = companyTheme,
            !.companyAttr = IF Truthy(companyTheme) THEN companyTheme
                            ELSE Null,
            !.localStorage = IF save
                             THEN [@ EXCEPT !["company-theme"] = companyTheme]
                             ELSE @]

\* resetThemes()
resetThemes(p, system) ==
  LET cleared == [p EXCEPT !.localStorage =
                    [@ EXCEPT !["theme"] = Null, !["company-theme"] = Null]]
  IN setCompanyTheme(setTheme(cleared, system, FALSE), "", FALSE)

\* the 'change' listener, saving what the system prefers
themeSystemListener_Saves(p, matches) ==
  IF ~p.ThemeSystem.isInitialized THEN p
  ELSE IF ~Truthy(p.localStorage["theme"]) THEN setTheme(p, matches, TRUE)
  ELSE p

\* the 'change' listener of setupSystemThemeListener, there once
\* initializeThemeSystem ran
themeSystemListener(p, matches) ==
  IF ~p.ThemeSystem.isInitialized THEN p
  ELSE IF ~Truthy(p.localStorage["theme"]) THEN setTheme(p, matches, FALSE)
  ELSE p

\* toggleTheme() of interactions.js
interactionsToggleTheme(p) ==
  LET currentTheme == Or(p.dataTheme.root, "light")
  IN [p EXCEPT !.dataTheme.root = newTheme(currentTheme),
               !.localStorage = [@ EXCEPT !["theme"] = newTheme(currentTheme)]]

\* getCurrentTheme() of the inline script of header.html
headerCurrentTheme(p, system) ==
  Or(p.dataTheme.body, Or(p.localStorage["theme"], system))

\* the click handler of the theme switcher in header.html
headerToggleTheme(p, system) ==
  LET currentTheme == headerCurrentTheme(p, system)
  IN [p EXCEPT !.dataTheme.body = newTheme(currentTheme),
               !.localStorage = [@ EXCEPT !["theme"] = newTheme(currentTheme)]]

\* the media-query change listener of header.html
headerSystemListener(p, matches) ==
  IF ~Truthy(p.localStorage["theme"])
  THEN [p EXCEPT !.dataTheme.body = matches] ELSE p

\* JSON.stringify(value) for a string value
JSONstringify(value) == "\"" \o value \o "\""

\* setStorage(key, value, prefix = 'resume_')
setStorage(p, key, value, prefix) ==
  IF prefix \o key \in StorageKeys
  THEN [p EXCEPT !.localStorage =
          [@ EXCEPT ![prefix \o key] = JSONstringify(value)]]
  ELSE p

\* removeStorage(key, prefix = 'resume_')
removeStorage(p, key, prefix) ==
  IF prefix \o key \in StorageKeys
  THEN [p EXCEPT !.localStorage = [@ EXCEPT ![prefix \o key] = Null]]
  ELSE p

\* variant: every key is taken, whatever its beginning
PrefixedKeys_All(store, prefix) == {k \in StorageKeys : store[k] # Null}

\* Object.keys(localStorage).filter((key) => key.startsWith(prefix))
PrefixedKeys(store, prefix) ==
  {k \in StorageKeys : store[k] # Null /\ startsWith(k, prefix)}

\* clearStorage(prefix = 'resume_')
clearStorage(p, prefix) ==
  [p EXCEPT !.localStorage =
     [k \in StorageKeys |->
        IF k \in PrefixedKeys(p.localStorage, prefix) THEN Null
        ELSE p.localStorage[k]]]

\* one call of initializeThemeSystem(); a call that gets past the guard runs
\* the body: loadThemePreferences, setupThemeSwitchers,
\* setupCompanyThemeSelector, setupSystemThemeListener
RunInitializeThemeSystem ==
  /\ Render(initializeThemeSystem(ThemePage, systemTheme))
  /\ themeInits' = IF alreadyInitialized(ThemePage) THEN themeInits
                   ELSE themeInits + 1

\* no toggle has been made since the last other operation
NoRun == [by |-> "none", count |-> 0, root |-> Null, body |-> Null,
          stored |-> Null, read |-> Null]

\* one more toggle by the same code in succession; a first toggle records
\* the two attributes and the stored value before it, and the theme read
Run(by, read) ==
  IF toggleRun.by = by /\ toggleRun.count = 1
  THEN [toggleRun EXCEPT !.count = 2]
  ELSE [by |-> by, count |-> 1, root |-> dataTheme.root,
        body |-> dataTheme.body, stored |-> localStorage["theme"],
        read |-> read]

\* the shell page before any script acted on the theme: nothing stored,
\* no data-theme set
ThemeIdle ==
  /\ ThemeSystem = ThemeSystemLoaded
  /\ dataTheme = [root |-> Null, body |-> Null]
  /\ companyAttr = Null
  /\ localStorage = [k \in StorageKeys |-> Null]
  /\ systemTheme = "light"
  /\ headerScript = FALSE
  /\ themeTimers = {}
  /\ loadEvent = FALSE
  /\ lastOp = "none"
  /\ toggleRun = NoRun
  /\ themeInits = 0

(***************************************************************************)
(* Photo carousel (hobbies-carousel.js).  The photo list is modelled by    *)
(* its length.                                                             *)
(***************************************************************************)
\* the number of photos getDefaultPhotos() returns
DefaultPhotos == 3

\* the largest JSON photo list a page embeds
MaxPhotos == 2

\* what document.getElementById('instagram-photos-data') finds: no
\* element ("missing"), an element whose text JSON.parse rejects
\* ("unparsable"), or an element holding a JSON array of count photos
PhotoDataKinds ==
  {[kind |-> "missing", count |-> 0], [kind |-> "unparsable", count |-> 0]}
  \cup {[kind |-> "json", count |-> c] : c \in 0..MaxPhotos}

\* const CarouselState = { currentIndex: 0, totalPhotos: 0, photos: [],
\*                         initialized: false, isPlaying: false,
\*                         autoPlayInterval: null, touchStartX: 0,
\*                         touchEndX: 0 }
CarouselStateLoaded ==
  [currentIndex |-> 0, totalPhotos |-> 0, photos |-> 0, initialized |-> FALSE,
   isPlaying |-> FALSE, autoPlayInterval |-> Null, touchStartX |-> 0,
   touchEndX |-> 0]

\* loadPhotoData(): without a data element the default photos are installed
\* and the function returns; otherwise the parsed list, or the default
\* photos when parsing throws, and totalPhotos = photos.length
loadPhotoData(state, data) ==
  CASE data.kind = "missing" ->
         [state EXCEPT !.photos = DefaultPhotos]
    [] data.kind = "json" ->
         [state EXCEPT !.photos = data.count, !.totalPhotos = data.count]
    [] data.kind = "unparsable" ->
         [state EXCEPT !.photos = DefaultPhotos,
                       !.totalPhotos = DefaultPhotos]

\* does a run of initializePhotoCarousel get past its two early returns
\* (no .photo-gallery; no photos) to renderPhotos, setupCarouselControls,
\* setupTouchGestures and setupKeyboardNavigation
carouselSetsUp(state, gallery, data) ==
  gallery /\ loadPhotoData(state, data).photos # 0

\* initializePhotoCarousel(): the new CarouselState
initializePhotoCarousel(state, gallery, data) ==
  IF ~gallery THEN state
  ELSE IF loadPhotoData(state, data).photos = 0
  THEN loadPhotoData(state, data)
  ELSE [loadPhotoData(state, data) EXCEPT !.initialized = TRUE]

\* navigateToPhoto(index): wrap-around against totalPhotos
navigateToPhoto(state, index) ==
  [state EXCEPT !.currentIndex =
     IF index < 0 THEN state.totalPhotos - 1
     ELSE IF index >= state.totalPhotos THEN 0
     ELSE index]

\* The autoplay functions work on CarouselState together with `intervals`,
\* the number of autoplay intervals the browser is running.
\* startAutoPlay(): isPlaying = true and a new interval, whose handle
\* replaces the one held
startAutoPlay(state) ==
  [state EXCEPT !.isPlaying = TRUE,
                !.autoPlayInterval = "handle",
                !.intervals = @ + 1]

\* pauseAutoPlay(): isPlaying = false; the interval held is cleared
pauseAutoPlay_KeepsInterval(state) ==
  [state EXCEPT !.isPlaying = FALSE]

pauseAutoPlay(state) ==
  IF state.autoPlayInterval # Null
  THEN [state EXCEPT !.isPlaying = FALSE,
                     !.autoPlayInterval = Null,
                     !.intervals = @ - 1]
  ELSE [state EXCEPT !.isPlaying = FALSE]

\* toggleAutoPlay()
toggleAutoPlay_AlwaysStarts(state) == startAutoPlay(state)

toggleAutoPlay(state) ==
  IF state.isPlaying THEN pauseAutoPlay(state) ELSE startAutoPlay(state)

\* one click on the prev (step = -1) or next (step = 1) button dispatched to
\* `listeners` listeners in turn, each calling
\* navigateToPhoto(CarouselState.currentIndex + step) and pauseAutoPlay()
RECURSIVE clickCarouselButton(_, _, _)
clickCarouselButton(state, step, listeners) ==
  IF listeners = 0 THEN state
  ELSE clickCarouselButton(
         pauseAutoPlay(navigateToPhoto(state, state.currentIndex + step)),
         step, listeners - 1)

\* one click on the play/pause button, or one press of the space bar,
\* dispatched to its listeners in turn
RECURSIVE clickPlayPause(_, _)
clickPlayPause(state, listeners) ==
  IF listeners = 0 THEN state
  ELSE clickPlayPause(toggleAutoPlay(state), listeners - 1)

\* the distance a swipe on the gallery must exceed
swipeThreshold == 50

\* handleSwipe()
handleSwipe(state) ==
  LET swipeDistance == state.touchStartX - state.touchEndX IN
  IF swipeDistance > swipeThreshold
  THEN pauseAutoPlay(navigateToPhoto(state, state.currentIndex + 1))
  ELSE IF 0 - swipeDistance > swipeThreshold
  THEN pauseAutoPlay(navigateToPhoto(state, state.currentIndex - 1))
  ELSE state

\* one touchend at clientX x dispatched to the touchend listeners of
\* .gallery-display in turn
RECURSIVE touchEnds(_, _, _)
touchEnds(state, x, listeners) ==
  IF listeners = 0 THEN state
  ELSE touchEnds(handleSwipe([state EXCEPT !.touchEndX = x]), x,
                 listeners - 1)

\* one press of an arrow key (step = -1 left, 1 right) dispatched to the
\* keydown listeners in turn; each returns at once when the gallery is not
\* in the viewport
RECURSIVE pressArrow(_, _, _, _)
pressArrow(state, step, inViewport, listeners) ==
  IF listeners = 0 \/ ~inViewport THEN state
  ELSE pressArrow(
         pauseAutoPlay(navigateToPhoto(state, state.currentIndex + step)),
         step, inViewport, listeners - 1)

\* window.PhotoCarousel is defined once hobbies-carousel.js has run: loaded
\* by the shell page, or by loadCarouselModule
PhotoCarouselDefined == carouselStatic \/ carousel = "loaded"

\* document.querySelector('.photo-gallery'): only the fetched hobbies
\* fragment can carry one
GalleryPresent == hasGallery /\ innerHTML["hobbies"] = <<"html", "hobbies">>

\* document.querySelector('.hobbies-section'): in the fetched fragment and
\* in the fallback markup of hobbies
HobbiesSectionPresent ==
  \/ innerHTML["hobbies"] = <<"html", "hobbies">>
  \/ innerHTML["hobbies"] = <<"fallback", "hobbies">>

\* .mobile-menu-toggle and #mobile-menu-overlay: part of the header markup
\* of the shell page
MenuPresent == headerScript

\* document.querySelectorAll('.expand-btn, [data-expand-target]') finds the
\* button of the fetched experience fragment
ExpandButtonPresent == innerHTML["experience"] = <<"html", "experience">>

\* one call of initializePhotoCarousel: a run that gets to
\* setupCarouselControls adds one more click listener to the prev and to
\* the next button
RunInitializePhotoCarousel ==
  /\ CarouselState' =
       initializePhotoCarousel(CarouselState, GalleryPresent, photoData)
  /\ carouselListeners' =
       IF carouselSetsUp(CarouselState, GalleryPresent, photoData)
       THEN carouselListeners + 1 ELSE carouselListeners

\* CarouselState with the browser's count of running autoplay intervals
Car == [f \in DOMAIN CarouselState \cup {"intervals"} |->
          IF f = "intervals" THEN liveIntervals ELSE CarouselState[f]]

\* the page takes the carousel c
SetCar(c) ==
  /\ CarouselState' = [f \in DOMAIN CarouselState |-> c[f]]
  /\ liveIntervals' = c.intervals

\* the gallery before any autoplay
AutoIdle ==
  /\ liveIntervals = 0
  /\ navigatedWhile = "none"

\* no click yet
NoClick == [target |-> "none", drained |-> FALSE, calls |-> 0,
            before |-> 0, after |-> 0]

\* the page before any script of the carousel, the navigation or the
\* interactions ran; the shell page loads hobbies-carousel.js only through
\* the loader, and the hobbies fragment has no gallery
BootIdle ==
  /\ carouselStatic = FALSE
  /\ hasGallery = FALSE
  /\ photoData = [kind |-> "missing", count |-> 0]
  /\ CarouselState = CarouselStateLoaded
  /\ carouselListeners = 0
  /\ carouselInitialized = FALSE
  /\ bootTimers = {}
  /\ navigationInits = 0
  /\ mobileMenuOpen = FALSE
  /\ interactionsPoll = "idle"
  /\ interactionsInits = 0
  /\ expandListeners = 0
  /\ pendingToggles = 0
  /\ expandedItems = {}
  /\ clicks = 0
  /\ lastClick = NoClick

(***************************************************************************)
(* Animation layer (animations.js in its two revisions): waitForComponents *)
(***************************************************************************)
AnimationsRevisions == {"animations_js", "part_004"}

\* does the markup of container n hold an element that '#n, .n-section'
\* ('#hero, .hero' for the hero) selects: the fragment files and the
\* fallbacks of components.js carry `class="..." id="n"`, the hero fallback
\* of main.js `class="hero"`, its other fallbacks and the generic
\* placeholder a bare `<section class="section">`
sectionExists(r, html, n) ==
  \/ html[n] = <<"html", n>>
  \/ html[n] = <<"fallback", n>> /\ (r # "main" \/ n = "hero")

\* document.querySelectorAll('[data-section]').length > 0: the attribute is
\* on the sections of the fragment files and of the fallbacks of
\* components.js
dataSectionExists(r, html) ==
  \E n \in AllNames :
    \/ html[n] = <<"html", n>>
    \/ html[n] = <<"fallback", n>> /\ r # "main"

\* the sections waitForComponents of the later revision looks for
AnimatedSections ==
  {"hero", "about", "skills", "experience", "projects", "contact"}

\* the condition under which checkComponents calls resolve()
waitForComponents(a, r, html, appIsLoaded) ==
  IF a = "animations_js"
  THEN appIsLoaded /\ sectionExists(r, html, "hero")
       /\ dataSectionExists(r, html)
  ELSE \A n \in AnimatedSections : sectionExists(r, html, n)

(***************************************************************************)
(* The mobile menu of navigation.js.  A menu is NavigationState's          *)
(* mobileMenuOpen together with what openMobileMenu and closeMobileMenu    *)
(* write to the DOM: the 'active' class of the toggle and of the overlay,  *)
(* aria-expanded of the toggle, aria-hidden of the overlay and             *)
(* document.body.style.overflow.                                           *)
(***************************************************************************)
\* window.innerWidth up to which detectMobile calls the device mobile
MobileBreakpoint == 768

\* the horizontal distance a touch must exceed to close the menu
SwipeThreshold == 50

\* the window widths of the runs: the breakpoint and one pixel more
Widths == {MobileBreakpoint, MobileBreakpoint + 1}

\* the clientX values of the touches of the runs
TouchXs == {0, SwipeThreshold, SwipeThreshold + 1}

\* the DOM of a page whose menu was never opened: the toggle of
\* header.html carries aria-expanded="false"; hidden is the overlay's
\* aria-hidden attribute
MenuDomLoaded(hidden) ==
  [toggleActive |-> FALSE, overlayActive |-> FALSE, ariaExpanded |-> "false",
   ariaHidden |-> hidden, bodyOverflow |-> ""]

\* openMobileMenu(): nothing when the toggle or the overlay is missing
openMobileMenu(m) ==
  IF ~MenuPresent THEN m
  ELSE [m EXCEPT !.mobileMenuOpen = TRUE,
                 !.toggleActive = TRUE,
                 !.overlayActive = TRUE,
                 !.bodyOverflow = "hidden",
                 !.ariaHidden = "false",
                 !.ariaExpanded = "true"]

\* closeMobileMenu(): nothing when the toggle or the overlay is missing
closeMobileMenu_KeepsScrollLock(m) ==
  IF ~MenuPresent THEN m
  ELSE [m EXCEPT !.mobileMenuOpen = FALSE,
                 !.toggleActive = FALSE,
                 !.overlayActive = FALSE,
                 !.ariaHidden = "true",
                 !.ariaExpanded = "false"]

closeMobileMenu(m) ==
  IF ~MenuPresent THEN m
  ELSE [m EXCEPT !.mobileMenuOpen = FALSE,
                 !.toggleActive = FALSE,
                 !.overlayActive = FALSE,
                 !.bodyOverflow = "",
                 !.ariaHidden = "true",
                 !.ariaExpanded = "false"]

\* toggleMobileMenu(): closeMobileMenu() when open, openMobileMenu() when
\* closed
toggleMobileMenu(m) ==
  IF m.mobileMenuOpen THEN closeMobileMenu(m) ELSE openMobileMenu(m)

\* detectMobile(): the new App.isMobile
detectMobile(width, agentMatches) ==
  width <= MobileBreakpoint \/ agentMatches

\* the touch closure before any touch
NoTouch == [startX |-> 0, isDragging |-> FALSE]

\* the page before navigation.js ran, in a desktop browser
MenuIdle ==
  /\ menuDom = MenuDomLoaded("true")
  /\ innerWidth = MobileBreakpoint + 1
  /\ mobileUserAgent = FALSE
  /\ appIsMobile = FALSE
  /\ detectedWidth = MobileBreakpoint + 1
  /\ resizeTimer = FALSE
  /\ touch = NoTouch
  /\ lastMenuEvent = "none"

(***************************************************************************)
(* Active-section highlighting (navigation.js) and the IntersectionObserver*)
(* of components.js.  Lengths are CSS pixels.                              *)
(***************************************************************************)
\* NavigationState.headerHeight
HeaderHeight == 60

\* below this scrollTop no section is active
TopZone == 100

\* the height of the window
ViewportHeight == 600

\* the sections of the page in document order and where they lie
PageSections == <<"hero", "about", "skills">>

SectionTop(s) ==
  CASE s = "hero" -> 0 [] s = "about" -> 100 [] s = "skills" -> 700

SectionHeight(s) == IF s = "hero" THEN 100 ELSE 600

\* the scroll positions of the runs
ScrollTops == {0, 50, 100, 300, 640}

\* const sectionNames of initializeActiveNavigation
SectionNames == {"about", "skills", "experience", "projects", "contact"}

\* the href targets of the .nav-link and .mobile-nav-link anchors
NavLinkTargets == {"about", "skills", "experience", "projects", "contact"}

\* NavigationState.sections: the named sections the page holds
TrackedSections == SelectSeq(PageSections, LAMBDA s : s \in SectionNames)

\* the forEach of updateActiveNavOnScroll over sections i..Len: the id of
\* the last section holding the scroll position, found the one held so far
RECURSIVE sectionAt(_, _, _)
sectionAt(position, i, found) ==
  IF i > Len(TrackedSections) THEN found
  ELSE LET s == TrackedSections[i] IN
       sectionAt(position, i + 1,
                 IF position >= SectionTop(s)
                    /\ position < SectionTop(s) + SectionHeight(s)
                 THEN s ELSE found)

\* the activeSection updateActiveNavOnScroll computes
scrollSection(top) ==
  IF top < TopZone THEN "" ELSE sectionAt(top + HeaderHeight, 1, "")

\* the links updateActiveNavigation(sectionId) leaves with 'active'
linksOf(sectionId) == {h \in NavLinkTargets : h = sectionId}

\* the sections an observer with rootMargin '0px 0px -10% 0px' and
\* threshold 0.1 finds intersecting at scroll position top
Overlap(s, top) ==
  LET lo == IF SectionTop(s) > top THEN SectionTop(s) ELSE top
      rootEnd == top + (ViewportHeight * 9) \div 10
      end == SectionTop(s) + SectionHeight(s)
      hi == IF end < rootEnd THEN end ELSE rootEnd
  IN  IF hi > lo THEN hi - lo ELSE 0

Intersecting(top) ==
  {PageSections[i] : i \in {j \in DOMAIN PageSections :
      10 * Overlap(PageSections[j], top) >= SectionHeight(PageSections[j])}}

\* the members of a set of sections in document order
InDocumentOrder(set) == SelectSeq(PageSections, LAMBDA s : s \in set)

\* the scroll listeners a page can carry: one per run of
\* initializeActiveNavigation
ScrollListeners == 1..2

\* the page at the top before navigation.js ran
NavIdle ==
  /\ scrollTop = 0
  /\ activeSection = ""
  /\ activeLinks = {}
  /\ scrollTimeouts = [l \in ScrollListeners |-> FALSE]
  /\ observing = FALSE
  /\ observed = {}
  /\ pendingEntries = <<>>
  /\ scrolls = 0

(***************************************************************************)
(* Expandable items (interactions.js).  An item's id is the text of its    *)
(* .company-name or .project-title element, or `item-${Date.now()}` when   *)
(* that is missing or empty.  expandItem and collapseItem change the item  *)
(* at once and leave a 400 ms timer that finishes the change.              *)
(***************************************************************************)
\* the expandable items of the page; the expand button of the earlier
\* sections is that of item 1
Items == {1, 2}

\* the texts a title element can carry; 0 stands for no title
Titles == {1, 2}

\* itemId of toggleExpandableItem
itemIdOf(title, time) ==
  IF title # 0 THEN <<"title", title>> ELSE <<"time", time>>

\* the content of an item as the fragment and the stylesheet leave it:
\* hidden, no aria attribute written yet
ItemDomLoaded ==
  [displayed |-> FALSE, ariaHidden |-> "absent", ariaExpanded |-> "absent"]

\* The expand functions work on the record of expandedItems, itemDom and
\* cleanupTimers.
\* expandItem(container, content, button, itemId)
expandItem(x, i, itemId) ==
  [x EXCEPT !.expandedItems = @ \cup {itemId},
            !.itemDom[i].ariaExpanded = "true",
            !.itemDom[i].displayed = TRUE,
            !.cleanupTimers = Append(@, <<i, "expand">>)]

\* collapseItem(container, content, button, itemId)
collapseItem(x, i, itemId) ==
  [x EXCEPT !.expandedItems = @ \ {itemId},
            !.itemDom[i].ariaExpanded = "false",
            !.cleanupTimers = Append(@, <<i, "collapse">>)]

\* toggleExpandableItem(button) for the button of item i, whose id is
\* itemId now
toggleExpandableItem(x, i, itemId) ==
  IF itemId \in x.expandedItems
  THEN collapseItem(x, i, itemId)
  ELSE expandItem(x, i, itemId)

\* the timer of expandItem ("expand") or of collapseItem ("collapse")
cleanUp(dom, kind) ==
  IF kind = "expand"
  THEN [dom EXCEPT !.ariaHidden = "false"]
  ELSE [dom EXCEPT !.displayed = FALSE, !.ariaHidden = "true"]

\* no toggle yet
NoToggle == [item |-> 0, op |-> "none", prevOp |-> "none",
             othersChanged |-> FALSE]

\* the page before interactions.js ran: two items with titles of their own
ExpandIdle ==
  /\ itemTitle = [i \in Items |-> i]
  /\ itemDom = [i \in Items |-> ItemDomLoaded]
  /\ cleanupTimers = <<>>
  /\ now = 0
  /\ itemOp = [i \in Items |-> "none"]
  /\ lastToggle = NoToggle
  /\ toggles = 0

\* the page before animations.js ran
AnimIdle ==
  /\ animationsRev = "animations_js"
  /\ animationsInitialized = FALSE

\* the widgets before any of their scripts ran
(***************************************************************************)
(* Toasts and copy buttons (interactions.js).  window.toastManager keeps   *)
(* its toasts in a map under ids it numbers; hide leaves a 300 ms timer    *)
(* that removes the toast from the page and from the map.  The click       *)
(* listener of a [data-copy] button marks the button while it copies.      *)
(***************************************************************************)
\* the [data-copy] buttons of the page
CopyButtons == {1, 2}

\* no call of hide yet
NoHide == [id |-> 0, known |-> FALSE, changed |-> FALSE]

\* no click on a copy button yet
NoCopy == [button |-> 0, flag |-> "absent", accepted |-> 0]

\* the page before a toast or a copy: navigator.clipboard is there
NoticeIdle ==
  /\ clipboardApi = TRUE
  /\ copying = [b \in CopyButtons |-> "absent"]
  /\ copyRun = [b \in CopyButtons |-> 0]
  /\ resetTimers = [b \in CopyButtons |-> 0]
  /\ copyLog = [b \in CopyButtons |-> [accepted |-> 0, toasts |-> 0]]
  /\ lastCopy = NoCopy
  /\ copyClicks = 0
  /\ toastCounter = 0
  /\ toasts = {}
  /\ toastDom = {}
  /\ shown = <<>>
  /\ autoHide = {}
  /\ removals = <<>>
  /\ explicitHides = {}
  /\ lastHide = NoHide
  /\ hides = 0
  /\ screenElapsed = 0

(***************************************************************************)
(* debounce and throttle (utils.js, main.js, navigation.js).               *)
(***************************************************************************)
\* no function wrapped
NoWrapped == [kind |-> "none", rev |-> "none", wait |-> 0,
              immediate |-> FALSE]

\* the page before debounce or throttle is called
UtilIdle ==
  /\ clock = 0
  /\ wrapped = NoWrapped
  /\ timeout = FALSE
  /\ inThrottle = FALSE
  /\ utilTimers = <<>>
  /\ utilCalls = <<>>
  /\ utilInvoked = <<>>

WidgetIdle ==
  /\ AnimIdle
  /\ MenuIdle
  /\ NavIdle
  /\ AutoIdle
  /\ ExpandIdle
  /\ NoticeIdle
  /\ UtilIdle

\* detectMobile() as the page runs it
RunDetectMobile ==
  /\ appIsMobile' = detectMobile(innerWidth, mobileUserAgent)
  /\ detectedWidth' = innerWidth

(***************************************************************************)
(* Initial state: the shell page before DOMContentLoaded                   *)
(***************************************************************************)
Init ==
  /\ rev \in Revisions
  /\ hasContainer \in [AllNames -> BOOLEAN]
  /\ \A n \in AllNames : ~hasContainer[n] => n \in MayBeMissing(rev)
  /\ innerHTML = [n \in AllNames |-> Empty]
  /\ loadPc = [n \in AllNames |-> "idle"]
  /\ promise = [n \in AllNames |-> "none"]
  /\ components = [n \in AllNames |-> NoEntry]
  /\ console = {}
  /\ pc = "start"
  /\ summary = NoSummary
  /\ showHobbies = TRUE
  /\ carousel = "unset"
  /\ isLoaded = FALSE
  /\ coreInitialized = FALSE
  /\ loadingScreen = "visible"
  /\ mainContent = "hidden"
  /\ pageError = "none"
  /\ timers = {}
  /\ fetches = [n \in AllNames |-> 0]
  /\ reloads = [n \in AllNames |-> 0]
  /\ reloadPc = [n \in AllNames |-> "idle"]
  /\ ThemeIdle
  /\ BootIdle
  /\ WidgetIdle

(***************************************************************************)
(* loadAllComponents, synchronous part: one loadComponent call per entry   *)
(* of COMPONENT_PATHS; each runs up to its `await fetch(path)`.            *)
(***************************************************************************)
\* variant: the loads are awaited one after the other, so only the first
\* entry's fetch is issued when the synchronous part ends
IssueLoads_Sequential(r) ==
  [n \in AllNames |->
     IF n = PathOrder(r)[1] THEN "fetch" ELSE "idle"]

\* Object.entries(COMPONENT_PATHS).map(... => loadComponent(...)): the
\* position every call of loadComponent has reached when map returns
IssueLoads(r) ==
  [n \in AllNames |-> IF n \in COMPONENT_PATHS(r) THEN "fetch" ELSE "idle"]

\* console.log(`Loading component: ${name}`) (not in main)
LoadingLog(r) ==
  IF r = "main" THEN {}
  ELSE {<<"log", "loading", n>> : n \in COMPONENT_PATHS(r)}

\* the DOMContentLoaded handler up to `await loadAllComponents()`, which
\* itself runs up to `await Promise.allSettled(loadPromises)`; the same
\* event runs the two DOMContentLoaded listeners of theme.js, each of which
\* sets a 100 ms timer for initializeThemeSystem, the listener of
\* hobbies-carousel.js (when the shell page loaded that script), which sets
\* a 1000 ms timer, and the listener of interactions.js, whose first
\* initWhenReady check finds App.isLoaded false and starts the 50 ms poll
DOMContentLoaded(stored) ==
  /\ pc = "start"
  /\ loadingScreen' = "visible"
  /\ showHobbies' = IF rev = "main" THEN showHobbies ELSE (stored # "false")
  /\ loadPc' = IssueLoads(rev)
  /\ promise' = [n \in AllNames |->
                   IF IssueLoads(rev)[n] = "idle" THEN "none" ELSE "pending"]
  /\ console' = console \cup LoadingLog(rev)
  /\ fetches' = [n \in AllNames |->
                   IF IssueLoads(rev)[n] = "fetch" THEN fetches[n] + 1
                   ELSE fetches[n]]
  /\ pc' = "allSettled"
  /\ UNCHANGED <<rev, hasContainer, innerHTML, components, summary, carousel,
                 isLoaded, coreInitialized, mainContent, timers,
                 pageError>>
  /\ themeTimers' = IF ThemeSystem.isInitialized THEN themeTimers
                    ELSE themeTimers \cup {"theme100a", "theme100b"}
  /\ UNCHANGED <<ThemeSystem, dataTheme, companyAttr, localStorage,
                 systemTheme, headerScript, loadEvent, lastOp, toggleRun,
                 themeInits>>
  /\ RunDetectMobile
  /\ UNCHANGED <<menuDom, innerWidth, mobileUserAgent, resizeTimer, touch,
                 lastMenuEvent>>
  /\ UNCHANGED <<reloadVars, widgetsNotMenu>>
  /\ bootTimers' = IF carouselStatic THEN bootTimers \cup {"carousel1000"}
                   ELSE bootTimers
  /\ interactionsPoll' = "polling"
  /\ UNCHANGED <<carouselStatic, hasGallery, photoData, CarouselState,
                 carouselListeners, carouselInitialized, navigationInits,
                 mobileMenuOpen, interactionsInits, expandListeners,
                 pendingToggles, expandedItems, clicks, lastClick>>

(***************************************************************************)
(* loadComponent                                                           *)
(***************************************************************************)
\* variant: the container is looked up under a fixed id
Inject_FixedContainer(html, n) == [html EXCEPT !["hero"] = <<"html", n>>]

\* const container = document.getElementById(containerId);
\* container.innerHTML = html  -- the new content of all containers
Inject(html, n) == [html EXCEPT ![n] = <<"html", n>>]

\* what the catch block of loadComponent does to the page: console.error,
\* the error entry, loadFallbackComponent
CatchEffects(n, message) ==
  /\ console' = console \cup {<<"error", "load_error", n>>}
                 \cup (IF rev # "main" /\ hasContainer[n]
                       THEN {<<"log", "fallback", n>>} ELSE {})
  /\ components' = [components EXCEPT ![n] = ErrorEntry(rev, @, message)]
  /\ innerHTML' = loadFallbackComponent(rev, hasContainer, innerHTML, n)

\* what the end of the try block of loadComponent does to the page: the
\* injection, the loaded entry, console.log
TryEffects(n) ==
  /\ innerHTML' = Inject(innerHTML, n)
  /\ components' = [components EXCEPT ![n] = LoadedEntry(rev)]
  /\ console' = console \cup {<<"log", "loaded", n>>}

\* variant: the catch block fetches the fragment once more before giving up
Catch_Retry(n, message) ==
  /\ CatchEffects(n, message)
  /\ IF fetches[n] < 2
     THEN /\ fetches' = [fetches EXCEPT ![n] = @ + 1]
          /\ UNCHANGED <<promise, loadPc>>
     ELSE /\ promise' = [promise EXCEPT ![n] = CatchReturn]
          /\ loadPc' = [loadPc EXCEPT ![n] = "done"]
          /\ fetches' = fetches

\* the catch block of loadComponent(name, path, containerId) in a call made
\* by loadAllComponents: it ends the call, no fetch is made again
Catch(n, message) ==
  /\ CatchEffects(n, message)
  /\ promise' = [promise EXCEPT ![n] = CatchReturn]
  /\ loadPc' = [loadPc EXCEPT ![n] = "done"]
  /\ fetches' = fetches

\* the two awaits of loadComponent settle: `await fetch(path)` rejects
\* (network_error) or resolves with a response that is not ok (http_error,
\* `if (!response.ok) throw`), or `await response.text()` rejects
\* (body_error), or the body arrives (ok); then the container lookup and
\* the injection.  Between the two awaits loadComponent reads and writes
\* nothing but its own locals, so they are one step here.
FetchSettles(n, outcome) ==
  /\ loadPc[n] = "fetch"
  /\ IF outcome # "ok"
     THEN Catch(n, "fetch_error_message")
     ELSE IF ~hasContainer[n]
     THEN Catch(n, "container_not_found_message")
     ELSE /\ TryEffects(n)
          /\ promise' = [promise EXCEPT ![n] = TryReturn]
          /\ loadPc' = [loadPc EXCEPT ![n] = "done"]
          /\ fetches' = fetches
  /\ UNCHANGED <<rev, hasContainer, pc, summary, showHobbies, carousel,
                 isLoaded, coreInitialized, loadingScreen, mainContent, timers,
                 pageError>>
  /\ UNCHANGED outsideLoader

(***************************************************************************)
(* loadAllComponents, after `await Promise.allSettled(loadPromises)`       *)
(***************************************************************************)
\* variant: resolves as soon as one input promise has settled
allSettled_Any(r, p) ==
  \E n \in COMPONENT_PATHS(r) : p[n] \in {"fulfilled_true", "fulfilled_false",
                                          "rejected"}

\* Promise.allSettled resolves once every input promise is fulfilled or
\* rejected
allSettled(r, p) ==
  \A n \in COMPONENT_PATHS(r) : p[n] \in {"fulfilled_true", "fulfilled_false",
                                          "rejected"}

\* variant: counts every fulfilled promise, whatever its value
successCount_AnyFulfilled(r, p) ==
  Cardinality({n \in COMPONENT_PATHS(r) :
                 p[n] \in {"fulfilled_true", "fulfilled_false"}})

\* results.filter(result => result.status === 'fulfilled' &&
\*                          result.value === true).length
successCount(r, p) ==
  Cardinality({n \in COMPONENT_PATHS(r) : p[n] = "fulfilled_true"})

\* results.length
totalComponents(r) == Cardinality(COMPONENT_PATHS(r))

\* the continuation of Promise.allSettled; components_b then runs
\* loadCarouselIfNeeded up to its await.  photoGallery: does
\* document.querySelector('.photo-gallery') find an element (only the
\* fetched hobbies fragment can carry one); scriptPresent: is
\* window.PhotoCarousel already defined
AllSettledResume(photoGallery, scriptPresent) ==
  /\ pc = "allSettled"
  /\ allSettled(rev, promise)
  /\ photoGallery => innerHTML["hobbies"] = <<"html", "hobbies">>
  /\ IF rev = "components_b" /\ showHobbies /\ photoGallery /\ ~scriptPresent
     THEN pc' = "carouselScript"
     ELSE pc' = "stats"
  /\ UNCHANGED <<rev, hasContainer, innerHTML, loadPc, promise, components,
                 console, summary, showHobbies, carousel, isLoaded,
                 coreInitialized, loadingScreen, mainContent, timers,
                 pageError>>
  /\ UNCHANGED <<fetches, outsideLoader>>

\* script.onerror that only warns
loadCarouselModule_OnlyWarns(ok) == IF ok THEN "loaded" ELSE "unset"

\* what loadCarouselModule leaves behind: script.onload records the module
\* under 'carousel'; script.onerror records {loaded: false, error: ...} and
\* calls showCarouselFallback, which finds the .photo-gallery that made
\* loadCarouselIfNeeded load the script
loadCarouselModule(ok) == IF ok THEN "loaded" ELSE "error_fallback"

\* loadCarouselModule: script.onload / script.onerror; onerror records the
\* error, shows the carousel fallback and resolves anyway
CarouselScriptSettles(ok) ==
  /\ pc = "carouselScript"
  /\ carousel' = loadCarouselModule(ok)
  /\ console' = console \cup (IF ok THEN {<<"log", "carousel_loaded", "">>}
                              ELSE {<<"warn", "carousel_failed", "">>})
  /\ pc' = "stats"
  /\ UNCHANGED <<rev, hasContainer, innerHTML, loadPc, promise, components,
                 summary, showHobbies, isLoaded, coreInitialized,
                 loadingScreen, mainContent, timers,
                 pageError>>
  /\ UNCHANGED <<fetches, outsideLoader>>

\* variant: loadAllComponents throws when a component failed
loadAllComponentsRejects_OnFailure(r, p) ==
  \E n \in COMPONENT_PATHS(r) : p[n] # "fulfilled_true"

\* does loadAllComponents reject: it has no throw of its own, and neither
\* Promise.allSettled nor loadCarouselIfNeeded (try/catch) rejects
loadAllComponentsRejects(r, p) == FALSE

\* variant: the flag is set on the error path too
HandlerCatch_MarksLoaded(cause) ==
  /\ loadingScreen' = "error_message"
  /\ isLoaded' = TRUE
  /\ console' = console \cup {<<"error", "page_error", cause>>}
  /\ pageError' = cause
  /\ pc' = "failed"

\* the catch block of the DOMContentLoaded handler: console.error and
\* handleLoadError(error), which replaces the loading screen's content by
\* the "refresh the page" message; App.isLoaded is left as it is
HandlerCatch(cause) ==
  /\ loadingScreen' = "error_message"
  /\ isLoaded' = isLoaded
  /\ console' = console \cup {<<"error", "page_error", cause>>}
  /\ pageError' = cause
  /\ pc' = "failed"

\* the rest of loadAllComponents: statistics, the summary log, the warning
\* when some failed, the navigation timer (components_b), the return
LoaderReturns ==
  /\ pc = "stats"
  /\ IF loadAllComponentsRejects(rev, promise)
     THEN /\ HandlerCatch("loadAllComponents")
          /\ UNCHANGED <<summary, timers>>
     ELSE /\ summary' =
               [returned |-> TRUE,
                successCount |-> successCount(rev, promise),
                totalComponents |-> totalComponents(rev),
                warned |-> totalComponents(rev) - successCount(rev, promise)]
          /\ console' = console \cup {<<"log", "loading_complete", "">>}
                \cup (IF successCount(rev, promise) < totalComponents(rev)
                      THEN {<<"warn", "components_failed", "">>} ELSE {})
          /\ timers' = IF rev = "components_b"
                       THEN timers \cup {"navigation100"} ELSE timers
          /\ pc' = "initializeApp"
          /\ UNCHANGED <<loadingScreen, pageError, isLoaded>>
  /\ UNCHANGED <<rev, hasContainer, innerHTML, loadPc, promise, components,
                 showHobbies, carousel, coreInitialized, mainContent>>
  /\ UNCHANGED <<fetches, outsideLoader>>

(***************************************************************************)
(* DOMContentLoaded handler, after `await loadAllComponents()`             *)
(***************************************************************************)
\* variant: hideLoadingScreen starts the fade at once, without the outer
\* timer
InitTimers_NoDelay(r) ==
  (IF r = "components_b" THEN {"navigation2000", "carousel2500"} ELSE {})
  \cup {"hideFade"}

\* timers set by initializeApp (components_b sets the navigation and the
\* carousel/interactions timers) and by hideLoadingScreen
InitTimers(r) ==
  (IF r = "components_b" THEN {"navigation2000", "carousel2500"} ELSE {})
  \cup {"hideDelay"}

\* the value `window.App.isLoaded = true` stores
MarkLoaded == TRUE

\* initializeApp(); hideLoadingScreen(); App.isLoaded = true -- or the catch
\* block when initializeApp throws.  initializeApp of components.js calls
\* initializeThemeSystem() first.  observerSupported: does the browser
\* define IntersectionObserver (initializeIntersectionObserver calls
\* `new IntersectionObserver` unguarded, after coreInitialized is set)
HandlerResumes(observerSupported) ==
  /\ pc = "initializeApp"
  /\ coreInitialized' = IF rev = "components_b" THEN TRUE ELSE coreInitialized
  /\ IF observerSupported
     THEN /\ timers' = timers \cup InitTimers(rev)
          /\ isLoaded' = MarkLoaded
          /\ pc' = "ready"
          /\ UNCHANGED <<loadingScreen, console, pageError>>
     ELSE /\ HandlerCatch("initializeApp")
          /\ UNCHANGED timers
  /\ UNCHANGED <<rev, hasContainer, innerHTML, loadPc, promise, components,
                 summary, showHobbies, carousel, mainContent>>
  /\ IF rev # "main"
     THEN /\ RunInitializeThemeSystem
          /\ lastOp' = IF ThemeSystem.isInitialized THEN lastOp
                       ELSE "initializeThemeSystem"
          /\ toggleRun' = IF ThemeSystem.isInitialized THEN toggleRun
                          ELSE NoRun
     ELSE UNCHANGED <<ThemeSystem, dataTheme, companyAttr, localStorage,
                      lastOp, toggleRun, themeInits>>
  /\ UNCHANGED <<systemTheme, headerScript, themeTimers, loadEvent>>
  /\ UNCHANGED <<fetches, reloadVars, bootVars, widgetVars>>

\* what the timers of hideLoadingScreen leave alone
outsideScreen == <<reloadVars, themeVars, bootVars, widgetsNotNotice,
                   copyVars, toastVars, utilVars>>

\* the delay of the timer hideLoadingScreen sets, in milliseconds
hideDelay(r) == IF r = "main" THEN 1000 ELSE 800

\* the delay of the timer its callback sets, in milliseconds
hideFade(r) == IF r = "main" THEN 500 ELSE 300

\* hideLoadingScreen, first timer (800 ms; 1000 ms in main): opacity 0.
\* A timer does not fire before its delay has passed
HideDelayFires ==
  /\ "hideDelay" \in timers
  /\ loadingScreen' = "fading"
  /\ timers' = (timers \ {"hideDelay"}) \cup {"hideFade"}
  /\ screenElapsed' = screenElapsed + hideDelay(rev)
  /\ UNCHANGED <<rev, hasContainer, innerHTML, loadPc, promise, components,
                 console, pc, summary, showHobbies, carousel, isLoaded,
                 coreInitialized, mainContent,
                 pageError>>
  /\ UNCHANGED <<fetches, outsideScreen>>

\* hideLoadingScreen, second timer (300 ms; 500 ms in main): hide the loading
\* screen, reveal the main content, triggerInitialAnimations
HideFadeFires ==
  /\ "hideFade" \in timers
  /\ loadingScreen' = "hidden"
  /\ mainContent' = "shown"
  /\ console' = IF rev = "main" THEN console
                ELSE console \cup {<<"log", "initial_animations", "">>}
  /\ timers' = timers \ {"hideFade"}
  /\ screenElapsed' = screenElapsed + hideFade(rev)
  /\ UNCHANGED <<rev, hasContainer, innerHTML, loadPc, promise, components,
                 pc, summary, showHobbies, carousel, isLoaded,
                 coreInitialized,
                 pageError>>
  /\ UNCHANGED <<fetches, outsideScreen>>

(***************************************************************************)
(* Specification                                                           *)
(***************************************************************************)
StoredFlags == {"null", "true", "false"}
FetchOutcomes == {"ok", "http_error", "network_error", "body_error"}

Next ==
  \/ \E stored \in StoredFlags : DOMContentLoaded(stored)
  \/ \E n \in AllNames, o \in FetchOutcomes : FetchSettles(n, o)
  \/ \E g \in BOOLEAN, s \in BOOLEAN : AllSettledResume(g, s)
  \/ \E ok \in BOOLEAN : CarouselScriptSettles(ok)
  \/ LoaderReturns
  \/ \E sup \in BOOLEAN : HandlerResumes(sup)
  \/ HideDelayFires
  \/ HideFadeFires

Spec == Init /\ [][Next]_vars

(***************************************************************************)
(* Fairness: the event loop does not stop while a fetch can settle or a    *)
(* continuation or timer can run.  Every step of Next consumes a pending   *)
(* fetch, continuation or timer, so this makes each of them happen.        *)
(***************************************************************************)
Fairness == WF_vars(Next)

LiveSpec == Spec /\ Fairness

(***************************************************************************)
(* App.utils.reloadComponent (components.js): a call from outside the      *)
(* loader (the console, another script); nothing in the page calls it.     *)
(***************************************************************************)
\* calls of reloadComponent in one page load
MaxReloads == 1

RECURSIVE SumOver(_, _)
SumOver(f, S) ==
  IF S = {} THEN 0
  ELSE LET x == CHOOSE y \in S : TRUE IN f[x] + SumOver(f, S \ {x})

\* the names the outside caller asks for: one that has a path in every
\* revision, one that has none in the later revision
ReloadNames == {"hero", "header"}

\* reloadComponent(componentName) up to `await fetch(path)` of the
\* loadComponent call it makes; a name without a path returns false at once
reloadComponent(n) ==
  /\ rev # "main"
  /\ SumOver(reloads, AllNames) < MaxReloads
  /\ reloadPc[n] # "fetch"
  /\ reloads' = [reloads EXCEPT ![n] = @ + 1]
  /\ IF n \in COMPONENT_PATHS(rev)
     THEN /\ reloadPc' = [reloadPc EXCEPT ![n] = "fetch"]
          /\ fetches' = [fetches EXCEPT ![n] = @ + 1]
          /\ console' = console \cup {<<"log", "loading", n>>}
     ELSE /\ reloadPc' = [reloadPc EXCEPT ![n] = "false"]
          /\ UNCHANGED <<fetches, console>>
  /\ UNCHANGED <<rev, hasContainer, innerHTML, loadPc, promise, components,
                 pc, summary, showHobbies, carousel, isLoaded, coreInitialized,
                 loadingScreen, mainContent, pageError, timers>>
  /\ UNCHANGED <<themeVars, bootVars, widgetVars>>

\* the awaits of the loadComponent call made by reloadComponent settle; the
\* value it returns is the value reloadComponent resolves to
ReloadSettles(n, outcome) ==
  /\ reloadPc[n] = "fetch"
  /\ IF outcome # "ok"
     THEN /\ CatchEffects(n, "fetch_error_message")
          /\ reloadPc' = [reloadPc EXCEPT ![n] = "false"]
     ELSE IF ~hasContainer[n]
     THEN /\ CatchEffects(n, "container_not_found_message")
          /\ reloadPc' = [reloadPc EXCEPT ![n] = "false"]
     ELSE /\ TryEffects(n)
          /\ reloadPc' = [reloadPc EXCEPT ![n] = "true"]
  /\ UNCHANGED <<rev, hasContainer, loadPc, promise, pc, summary, showHobbies,
                 carousel, isLoaded, coreInitialized, loadingScreen,
                 mainContent, pageError, timers, fetches, reloads>>
  /\ UNCHANGED <<themeVars, bootVars, widgetVars>>

ReloadNext ==
  \/ Next
  \/ \E n \in ReloadNames : reloadComponent(n)
  \/ \E n \in ReloadNames, o \in FetchOutcomes : ReloadSettles(n, o)

\* the shell page with every container in place
ReloadInit == Init /\ \A n \in AllNames : hasContainer[n]

ReloadSpec == ReloadInit /\ [][ReloadNext]_vars

(***************************************************************************)
(* Theme: timers, events and calls.  The functions exported as             *)
(* window.ThemeSystem, window.Interactions and window.Utils can be called  *)
(* at any time once their script has loaded; the clicks on the theme       *)
(* switcher reach toggleTheme of theme.js once initializeThemeSystem has   *)
(* replaced the switcher by a clone with its own listener, and the inline  *)
(* script's listener before that.                                          *)
(***************************************************************************)
ThemeNames == {"light", "dark"}
ThemeArguments == {"light", "dark", "blue"}
CompanyThemes == {"", "acme"}
UtilityKeys == {"visits"}
UtilityValues == {"1"}

\* every prefix argument the callers pass: none, so the default
Prefixes == {"resume_"}

\* setTimeout(initializeThemeSystem, 100) fires; the two timers were set one
\* after the other with the same delay
ThemeTimerFires(t) ==
  /\ t \in themeTimers
  /\ t = "theme100b" => "theme100a" \notin themeTimers
  /\ themeTimers' = themeTimers \ {t}
  /\ RunInitializeThemeSystem
  /\ lastOp' = IF ThemeSystem.isInitialized THEN lastOp
               ELSE "initializeThemeSystem"
  /\ toggleRun' = IF ThemeSystem.isInitialized THEN toggleRun ELSE NoRun
  /\ UNCHANGED <<systemTheme, headerScript, loadEvent>>
  /\ UNCHANGED <<loaderVars, reloadVars, bootVars, widgetVars>>

\* the window load event: the backup initialization of theme.js, and the
\* load listener of hobbies-carousel.js when that script has run by then
WindowLoad ==
  /\ pc # "start"
  /\ ~loadEvent
  /\ loadEvent' = TRUE
  /\ IF ThemeSystem.isInitialized
     THEN UNCHANGED <<ThemeSystem, dataTheme, companyAttr, localStorage,
                      themeInits>>
     ELSE RunInitializeThemeSystem
  /\ lastOp' = IF ThemeSystem.isInitialized THEN lastOp
               ELSE "initializeThemeSystem"
  /\ toggleRun' = IF ThemeSystem.isInitialized THEN toggleRun ELSE NoRun
  /\ UNCHANGED <<systemTheme, headerScript, themeTimers>>
  /\ IF PhotoCarouselDefined /\ ~CarouselState.initialized
     THEN RunInitializePhotoCarousel
     ELSE UNCHANGED <<CarouselState, carouselListeners>>
  /\ UNCHANGED <<carouselStatic, hasGallery, photoData, carouselInitialized,
                 bootTimers, navigationInits, mobileMenuOpen,
                 interactionsPoll, interactionsInits, expandListeners,
                 pendingToggles, expandedItems, clicks, lastClick>>
  /\ UNCHANGED <<loaderVars, reloadVars, widgetVars>>

\* ThemeSystem.toggleTheme(), or a click on a switcher wired by
\* setupThemeSwitchers
CallToggleTheme ==
  /\ Render(toggleTheme(ThemePage))
  /\ lastOp' = "toggleTheme"
  /\ toggleRun' = Run("theme", ThemeSystem.currentTheme)
  /\ UNCHANGED <<systemTheme, headerScript, themeTimers, loadEvent,
                 themeInits>>
  /\ UNCHANGED <<loaderVars, reloadVars, bootVars, widgetVars>>

\* ThemeSystem.setTheme(theme, save)
CallSetTheme(theme, save) ==
  /\ Render(setTheme(ThemePage, theme, save))
  /\ lastOp' = IF save THEN "setTheme" ELSE "other"
  /\ toggleRun' = NoRun
  /\ UNCHANGED <<systemTheme, headerScript, themeTimers, loadEvent,
                 themeInits>>
  /\ UNCHANGED <<loaderVars, reloadVars, bootVars, widgetVars>>

\* ThemeSystem.setCompanyTheme(companyTheme, save), or a change of the
\* company theme selector
CallSetCompanyTheme(companyTheme, save) ==
  /\ Render(setCompanyTheme(ThemePage, companyTheme, save))
  /\ lastOp' = "other"
  /\ toggleRun' = NoRun
  /\ UNCHANGED <<systemTheme, headerScript, themeTimers, loadEvent,
                 themeInits>>
  /\ UNCHANGED <<loaderVars, reloadVars, bootVars, widgetVars>>

\* ThemeSystem.resetThemes()
CallResetThemes ==
  /\ Render(resetThemes(ThemePage, systemTheme))
  /\ lastOp' = "other"
  /\ toggleRun' = NoRun
  /\ UNCHANGED <<systemTheme, headerScript, themeTimers, loadEvent,
                 themeInits>>
  /\ UNCHANGED <<loaderVars, reloadVars, bootVars, widgetVars>>

\* the prefers-color-scheme media query changes: the listener of header.html
\* (registered when its script ran), then the listener of theme.js
SystemThemeChange ==
  /\ systemTheme' = newTheme(systemTheme)
  /\ Render(themeSystemListener(
              IF headerScript
              THEN headerSystemListener(ThemePage, systemTheme')
              ELSE ThemePage,
              systemTheme'))
  /\ lastOp' = "systemChange"
  /\ toggleRun' = NoRun
  /\ UNCHANGED <<headerScript, themeTimers, loadEvent, themeInits>>
  /\ UNCHANGED <<loaderVars, reloadVars, bootVars, widgetVars>>

\* toggleTheme() of interactions.js is called
CallInteractionsToggleTheme ==
  /\ Render(interactionsToggleTheme(ThemePage))
  /\ lastOp' = "other"
  /\ toggleRun' = Run("interactions", Or(dataTheme.root, "light"))
  /\ UNCHANGED <<systemTheme, headerScript, themeTimers, loadEvent,
                 themeInits>>
  /\ UNCHANGED <<loaderVars, reloadVars, bootVars, widgetVars>>

\* a click on the theme switcher while the listener of header.html is the
\* one on it
HeaderThemeClick ==
  /\ headerScript
  /\ ~ThemeSystem.isInitialized
  /\ Render(headerToggleTheme(ThemePage, systemTheme))
  /\ lastOp' = "other"
  /\ toggleRun' = Run("header", headerCurrentTheme(ThemePage, systemTheme))
  /\ UNCHANGED <<systemTheme, headerScript, themeTimers, loadEvent,
                 themeInits>>
  /\ UNCHANGED <<loaderVars, reloadVars, bootVars, widgetVars>>

\* Utils.setStorage(key, value)
CallSetStorage(key, value, prefix) ==
  /\ Render(setStorage(ThemePage, key, value, prefix))
  /\ UNCHANGED <<systemTheme, headerScript, themeTimers, loadEvent, lastOp,
                 toggleRun, themeInits>>
  /\ UNCHANGED <<loaderVars, reloadVars, bootVars, widgetVars>>

\* Utils.removeStorage(key)
CallRemoveStorage(key, prefix) ==
  /\ Render(removeStorage(ThemePage, key, prefix))
  /\ UNCHANGED <<systemTheme, headerScript, themeTimers, loadEvent, lastOp,
                 toggleRun, themeInits>>
  /\ UNCHANGED <<loaderVars, reloadVars, bootVars, widgetVars>>

\* Utils.clearStorage()
CallClearStorage(prefix) ==
  /\ Render(clearStorage(ThemePage, prefix))
  /\ UNCHANGED <<systemTheme, headerScript, themeTimers, loadEvent, lastOp,
                 toggleRun, themeInits>>
  /\ UNCHANGED <<loaderVars, reloadVars, bootVars, widgetVars>>

\* what a returning visitor's browser holds, and what the shell page's
\* inline script made of it
ThemeInit ==
  /\ rev = "components_b"
  /\ hasContainer = [n \in AllNames |-> TRUE]
  /\ innerHTML = [n \in AllNames |-> Empty]
  /\ loadPc = [n \in AllNames |-> "idle"]
  /\ promise = [n \in AllNames |-> "none"]
  /\ components = [n \in AllNames |-> NoEntry]
  /\ console = {}
  /\ pc = "start"
  /\ summary = NoSummary
  /\ showHobbies = TRUE
  /\ carousel = "unset"
  /\ isLoaded = FALSE
  /\ coreInitialized = FALSE
  /\ loadingScreen = "visible"
  /\ mainContent = "hidden"
  /\ pageError = "none"
  /\ timers = {}
  /\ fetches = [n \in AllNames |-> 0]
  /\ reloads = [n \in AllNames |-> 0]
  /\ reloadPc = [n \in AllNames |-> "idle"]
  /\ ThemeSystem = ThemeSystemLoaded
  /\ \E root \in ThemeNames \cup {Null} :
       dataTheme = [root |-> root, body |-> Null]
  /\ companyAttr = Null
  /\ \E theme \in ThemeNames \cup {Null}, company \in {Null, "acme"},
        others \in {Null, "true"} :
       localStorage = [k \in StorageKeys |->
                         CASE k = "theme" -> theme
                           [] k = "company-theme" -> company
                           [] k = "resume_visits" ->
                                IF others = Null THEN Null
                                ELSE JSONstringify("1")
                           [] OTHER -> others]
  /\ systemTheme \in ThemeNames
  /\ headerScript \in BOOLEAN
  /\ themeTimers = {}
  /\ loadEvent = FALSE
  /\ lastOp = "none"
  /\ toggleRun = NoRun
  /\ themeInits = 0
  /\ BootIdle
  /\ WidgetIdle

ThemeNext ==
  \/ \E stored \in StoredFlags :
       stored = localStorage["show-hobbies"] /\ DOMContentLoaded(stored)
  \/ \E t \in {"theme100a", "theme100b"} : ThemeTimerFires(t)
  \/ WindowLoad
  \/ CallToggleTheme
  \/ \E theme \in ThemeArguments, save \in BOOLEAN : CallSetTheme(theme, save)
  \/ \E c \in CompanyThemes, save \in BOOLEAN : CallSetCompanyTheme(c, save)
  \/ CallResetThemes
  \/ SystemThemeChange
  \/ CallInteractionsToggleTheme
  \/ HeaderThemeClick
  \/ \E key \in UtilityKeys, value \in UtilityValues, prefix \in Prefixes :
       CallSetStorage(key, value, prefix)
  \/ \E key \in UtilityKeys, prefix \in Prefixes :
       CallRemoveStorage(key, prefix)
  \/ \E prefix \in Prefixes : CallClearStorage(prefix)

ThemeSpec == ThemeInit /\ [][ThemeNext]_vars

(***************************************************************************)
(* Start-up of the downstream modules: the timers set by the loader        *)
(* (components.js), by hobbies-carousel.js and by interactions.js, and the *)
(* visitor's clicks on the controls they wire.  Timers fire in the order   *)
(* of their deadlines: the theme's 100 ms timers and the interactions poll *)
(* (50 ms) before the loader's 100 ms navigation timer, that before the    *)
(* 800 ms and 300 ms timers of hideLoadingScreen, those before the         *)
(* 2000 ms and the 2500 ms timer of initializeApp; the carousel's own      *)
(* 1000 ms timer runs from DOMContentLoaded, so no later than the second   *)
(* timer of hideLoadingScreen.                                             *)
(***************************************************************************)
\* clicks the visitor makes in one page load
MaxClicks == 1

\* window.Utils is defined: utils.js is a script of the shell page
UtilsDefined == TRUE

\* the interactions poll finds App.isLoaded set and has not run yet
PollDue == isLoaded /\ interactionsPoll = "polling"

\* every initialization timer of a page that became ready has fired
TimersDrained ==
  /\ pc = "ready"
  /\ timers = {}
  /\ bootTimers = {}
  /\ themeTimers = {}
  /\ interactionsPoll = "done"

\* variant: the poll does not look at App.isLoaded
initWhenReady_NoFlag(appIsLoaded, utilsDefined) == utilsDefined

\* if (window.App && window.App.isLoaded && window.Utils)
initWhenReady(appIsLoaded, utilsDefined) == appIsLoaded /\ utilsDefined

\* initializeAllInteractions(): initializeExpandCollapse adds a click
\* listener, with a debounced toggle of its own, and a keydown listener to
\* every expand button in the document and sets its aria-expanded to
\* 'false'
RunInitializeAllInteractions ==
  /\ interactionsInits' = interactionsInits + 1
  /\ expandListeners' = IF ExpandButtonPresent THEN expandListeners + 1
                        ELSE expandListeners
  /\ itemDom' = IF ExpandButtonPresent
                THEN [i \in Items |->
                        [itemDom[i] EXCEPT !.ariaExpanded = "false"]]
                ELSE itemDom

\* a check of the initWhenReady poll that finds its condition true
InteractionsPollReady ==
  /\ interactionsPoll = "polling"
  /\ initWhenReady(isLoaded, UtilsDefined)
  /\ interactionsPoll' = "done"
  /\ RunInitializeAllInteractions
  /\ UNCHANGED <<carouselStatic, hasGallery, photoData, CarouselState,
                 carouselListeners, carouselInitialized, bootTimers,
                 navigationInits, mobileMenuOpen, pendingToggles,
                 expandedItems, clicks, lastClick>>
  /\ UNCHANGED <<loaderVars, reloadVars, themeVars, widgetsNotExpand,
                 expandNotDom>>

\* the 1000 ms timer set by the DOMContentLoaded listener of
\* hobbies-carousel.js
CarouselTimerFires ==
  /\ "carousel1000" \in bootTimers
  /\ themeTimers = {}
  /\ bootTimers' = bootTimers \ {"carousel1000"}
  /\ IF GalleryPresent
     THEN RunInitializePhotoCarousel
     ELSE UNCHANGED <<CarouselState, carouselListeners>>
  /\ UNCHANGED <<carouselStatic, hasGallery, photoData, carouselInitialized,
                 navigationInits, mobileMenuOpen, interactionsPoll,
                 interactionsInits, expandListeners, pendingToggles,
                 expandedItems, clicks, lastClick>>
  /\ UNCHANGED <<loaderVars, reloadVars, themeVars, widgetVars>>

\* the timers that call initializeNavigation(): the 100 ms timer of
\* loadAllComponents and the 2000 ms timer of initializeApp.  Each run of
\* initializeMobileMenu adds a click listener to .mobile-menu-toggle, each
\* run of initializeActiveNavigation calls clearAllActiveNavigation() and
\* adds a scroll listener
NavigationTimerFires(t) ==
  /\ t \in timers
  /\ pc \in {"ready", "failed"}
  /\ themeTimers = {}
  /\ ~PollDue
  /\ t = "navigation2000" =>
       /\ timers \cap {"navigation100", "hideDelay", "hideFade"} = {}
       /\ "carousel1000" \notin bootTimers
  /\ timers' = timers \ {t}
  /\ navigationInits' = navigationInits + 1
  /\ UNCHANGED <<rev, hasContainer, innerHTML, loadPc, promise, components,
                 console, pc, summary, showHobbies, carousel, isLoaded,
                 coreInitialized, loadingScreen, mainContent, pageError,
                 fetches>>
  /\ UNCHANGED <<carouselStatic, hasGallery, photoData, CarouselState,
                 carouselListeners, carouselInitialized, bootTimers,
                 mobileMenuOpen, interactionsPoll, interactionsInits,
                 expandListeners, pendingToggles, expandedItems, clicks,
                 lastClick>>
  /\ activeSection' = ""
  /\ activeLinks' = {}
  /\ UNCHANGED <<scrollTop, scrollTimeouts, observing, observed,
                 pendingEntries, scrolls>>
  /\ UNCHANGED <<reloadVars, themeVars, widgetsNotNav>>

\* the 2500 ms timer of initializeApp: the carousel, guarded by
\* App.carouselInitialized, with a retry 1000 ms later when
\* window.PhotoCarousel is not defined; then initializeAllInteractions()
AppCarouselTimerFires ==
  /\ "carousel2500" \in timers
  /\ timers = {"carousel2500"}
  /\ "carousel1000" \notin bootTimers
  /\ themeTimers = {}
  /\ ~PollDue
  /\ timers' = timers \ {"carousel2500"}
  /\ IF carouselInitialized
     THEN UNCHANGED <<carouselInitialized, CarouselState, carouselListeners,
                      bootTimers, interactionsInits, expandListeners,
                      itemDom>>
     ELSE /\ IF HobbiesSectionPresent /\ GalleryPresent
             THEN /\ carouselInitialized' = TRUE
                  /\ IF PhotoCarouselDefined
                     THEN /\ RunInitializePhotoCarousel
                          /\ UNCHANGED bootTimers
                     ELSE /\ bootTimers' = bootTimers \cup {"retry1000"}
                          /\ UNCHANGED <<CarouselState, carouselListeners>>
             ELSE UNCHANGED <<carouselInitialized, CarouselState,
                              carouselListeners, bootTimers>>
          /\ RunInitializeAllInteractions
  /\ UNCHANGED <<rev, hasContainer, innerHTML, loadPc, promise, components,
                 console, pc, summary, showHobbies, carousel, isLoaded,
                 coreInitialized, loadingScreen, mainContent, pageError,
                 fetches>>
  /\ UNCHANGED <<carouselStatic, hasGallery, photoData, navigationInits,
                 mobileMenuOpen, interactionsPoll, pendingToggles,
                 expandedItems, clicks, lastClick>>
  /\ UNCHANGED <<reloadVars, themeVars, widgetsNotExpand, expandNotDom>>

\* the retry timer set by the 2500 ms timer
RetryTimerFires ==
  /\ "retry1000" \in bootTimers
  /\ bootTimers' = bootTimers \ {"retry1000"}
  /\ IF PhotoCarouselDefined
     THEN /\ RunInitializePhotoCarousel
          /\ UNCHANGED carouselInitialized
     ELSE /\ carouselInitialized' = FALSE
          /\ UNCHANGED <<CarouselState, carouselListeners>>
  /\ UNCHANGED <<carouselStatic, hasGallery, photoData, navigationInits,
                 mobileMenuOpen, interactionsPoll, interactionsInits,
                 expandListeners, pendingToggles, expandedItems, clicks,
                 lastClick>>
  /\ UNCHANGED <<loaderVars, reloadVars, themeVars, widgetVars>>

\* the menu as the page holds it
Menu ==
  [mobileMenuOpen |-> mobileMenuOpen,
   toggleActive |-> menuDom.toggleActive,
   overlayActive |-> menuDom.overlayActive,
   ariaExpanded |-> menuDom.ariaExpanded,
   ariaHidden |-> menuDom.ariaHidden,
   bodyOverflow |-> menuDom.bodyOverflow]

\* the page takes the menu m
SetMenu(m) ==
  /\ mobileMenuOpen' = m.mobileMenuOpen
  /\ menuDom' = [f \in DOMAIN menuDom |-> m[f]]

\* one click on .mobile-menu-toggle dispatched to its listeners in turn
RECURSIVE clickMenuToggle(_, _)
clickMenuToggle(m, listeners) ==
  IF listeners = 0 THEN m
  ELSE clickMenuToggle(toggleMobileMenu(m), listeners - 1)

\* the click listeners .mobile-menu-toggle carries
menuListeners == IF MenuPresent THEN navigationInits ELSE 0

Flag(b) == IF b THEN 1 ELSE 0

\* the visitor clicks the mobile-menu toggle
ClickMenuToggle ==
  /\ pc # "start"
  /\ MenuPresent
  /\ clicks < MaxClicks
  /\ clicks' = clicks + 1
  /\ SetMenu(clickMenuToggle(Menu, menuListeners))
  /\ lastMenuEvent' = "toggle"
  /\ lastClick' = [target |-> "menu", drained |-> TimersDrained,
                   calls |-> menuListeners,
                   before |-> Flag(mobileMenuOpen),
                   after |-> Flag(mobileMenuOpen')]
  /\ UNCHANGED <<carouselStatic, hasGallery, photoData, CarouselState,
                 carouselListeners, carouselInitialized, bootTimers,
                 navigationInits, interactionsPoll, interactionsInits,
                 expandListeners, pendingToggles, expandedItems>>
  /\ UNCHANGED <<innerWidth, mobileUserAgent, appIsMobile, detectedWidth,
                 resizeTimer, touch>>
  /\ UNCHANGED <<loaderVars, reloadVars, themeVars, widgetsNotMenu>>

\* navigatedWhile after an event of the gallery: a manual navigation that
\* reached a listener records whether autoplay was on
ManualNavigation(handled) ==
  IF ~handled THEN navigatedWhile
  ELSE IF CarouselState.isPlaying THEN "playing" ELSE "paused"

\* the visitor clicks the prev (step = -1) or the next (step = 1) button
\* of the gallery
ClickCarouselButton(step) ==
  /\ GalleryPresent
  /\ clicks < MaxClicks
  /\ clicks' = clicks + 1
  /\ SetCar(clickCarouselButton(Car, step, carouselListeners))
  /\ navigatedWhile' = ManualNavigation(carouselListeners > 0)
  /\ lastClick' = [target |-> IF step = 1 THEN "next" ELSE "prev",
                   drained |-> TimersDrained,
                   calls |-> carouselListeners,
                   before |-> CarouselState.currentIndex,
                   after |-> CarouselState'.currentIndex]
  /\ UNCHANGED <<carouselStatic, hasGallery, photoData, carouselListeners,
                 carouselInitialized, bootTimers, navigationInits,
                 mobileMenuOpen, interactionsPoll, interactionsInits,
                 expandListeners, pendingToggles, expandedItems>>
  /\ UNCHANGED <<loaderVars, reloadVars, themeVars, widgetsNotAuto>>

\* the expandable items as the page holds them
Expandables ==
  [expandedItems |-> expandedItems, itemDom |-> itemDom,
   cleanupTimers |-> cleanupTimers]

\* would toggleExpandableItem find the id of item j in the set: an item
\* without a title gets a new id from the clock
TreatedExpanded(j, set) ==
  itemTitle[j] # 0 /\ itemIdOf(itemTitle[j], now) \in set

\* toggleExpandableItem called n times in a row for the button of item i
RECURSIVE toggleTimes(_, _, _, _)
toggleTimes(x, i, itemId, n) ==
  IF n = 0 THEN x
  ELSE toggleTimes(toggleExpandableItem(x, i, itemId), i, itemId, n - 1)

\* what the last of n > 0 toggles in a row calls when the first met the
\* set `set`
lastOpOf(itemId, set, n) ==
  IF (itemId \in set) = (n % 2 = 1) THEN "collapse" ELSE "expand"

\* what the toggle before the last called: the first of two in a row, or
\* the item's last toggle before
prevOpOf(i, itemId, set, n) ==
  IF n > 1 THEN lastOpOf(itemId, set, n - 1) ELSE itemOp[i]

\* the page takes n toggles of item i at the time of the clock
RunToggles(i, n) ==
  LET itemId == itemIdOf(itemTitle[i], now')
      x == toggleTimes(Expandables, i, itemId, n)
  IN  /\ expandedItems' = x.expandedItems
      /\ itemDom' = x.itemDom
      /\ cleanupTimers' = x.cleanupTimers
      /\ itemOp' = [itemOp EXCEPT ![i] = lastOpOf(itemId, expandedItems, n)]
      /\ lastToggle' =
           [item |-> i,
            op |-> lastOpOf(itemId, expandedItems, n),
            prevOp |-> prevOpOf(i, itemId, expandedItems, n),
            othersChanged |->
              \E j \in Items \ {i} :
                TreatedExpanded(j, expandedItems)
                  # TreatedExpanded(j, x.expandedItems)]

\* the visitor clicks the expand button: every listener calls its own
\* debounced toggle, which (re)starts that listener's 200 ms timer
ClickExpandButton ==
  /\ ExpandButtonPresent
  /\ clicks < MaxClicks
  /\ clicks' = clicks + 1
  /\ pendingToggles' = expandListeners
  /\ lastClick' = [target |-> "expand", drained |-> TimersDrained,
                   calls |-> 0,
                   before |-> Flag(TreatedExpanded(1, expandedItems)),
                   after |-> Flag(TreatedExpanded(1, expandedItems))]
  /\ UNCHANGED <<carouselStatic, hasGallery, photoData, CarouselState,
                 carouselListeners, carouselInitialized, bootTimers,
                 navigationInits, mobileMenuOpen, interactionsPoll,
                 interactionsInits, expandListeners, expandedItems>>
  /\ UNCHANGED <<loaderVars, reloadVars, themeVars, widgetVars>>

\* a debounce timer fires and runs toggleExpandableItem(button)
DebouncedToggleFires ==
  /\ pendingToggles > 0
  /\ pendingToggles' = pendingToggles - 1
  /\ UNCHANGED <<itemTitle, now, toggles>>
  /\ RunToggles(1, 1)
  /\ lastClick' = [lastClick EXCEPT
                     !.calls = @ + 1,
                     !.after = Flag(TreatedExpanded(1, expandedItems'))]
  /\ UNCHANGED <<carouselStatic, hasGallery, photoData, CarouselState,
                 carouselListeners, carouselInitialized, bootTimers,
                 navigationInits, mobileMenuOpen, interactionsPoll,
                 interactionsInits, expandListeners, clicks>>
  /\ UNCHANGED <<loaderVars, reloadVars, themeVars, widgetsNotExpand>>

\* the fetches that may fail in these runs
BootOutcomes(n) ==
  IF n \in {"hobbies", "experience"} THEN {"ok", "network_error"}
  ELSE {"ok"}

\* the page of components.js (the revision that sets the navigation and
\* carousel timers) with every container and the header markup in place;
\* a first visit: nothing stored
BootPage ==
  /\ rev = "components_b"
  /\ hasContainer = [n \in AllNames |-> TRUE]
  /\ innerHTML = [n \in AllNames |-> Empty]
  /\ loadPc = [n \in AllNames |-> "idle"]
  /\ promise = [n \in AllNames |-> "none"]
  /\ components = [n \in AllNames |-> NoEntry]
  /\ console = {}
  /\ pc = "start"
  /\ summary = NoSummary
  /\ showHobbies = TRUE
  /\ carousel = "unset"
  /\ isLoaded = FALSE
  /\ coreInitialized = FALSE
  /\ loadingScreen = "visible"
  /\ mainContent = "hidden"
  /\ pageError = "none"
  /\ timers = {}
  /\ fetches = [n \in AllNames |-> 0]
  /\ reloads = [n \in AllNames |-> 0]
  /\ reloadPc = [n \in AllNames |-> "idle"]
  /\ ThemeSystem = ThemeSystemLoaded
  /\ dataTheme = [root |-> Null, body |-> Null]
  /\ companyAttr = Null
  /\ localStorage = [k \in StorageKeys |-> Null]
  /\ systemTheme = "light"
  /\ headerScript = TRUE
  /\ themeTimers = {}
  /\ loadEvent = FALSE
  /\ lastOp = "none"
  /\ toggleRun = NoRun
  /\ themeInits = 0
  /\ CarouselState = CarouselStateLoaded
  /\ carouselListeners = 0
  /\ carouselInitialized = FALSE
  /\ bootTimers = {}
  /\ navigationInits = 0
  /\ mobileMenuOpen = FALSE
  /\ interactionsPoll = "idle"
  /\ interactionsInits = 0
  /\ expandListeners = 0
  /\ pendingToggles = 0
  /\ expandedItems = {}
  /\ clicks = 0
  /\ lastClick = NoClick

BootInit ==
  /\ BootPage
  /\ carouselStatic \in BOOLEAN
  /\ hasGallery \in BOOLEAN
  /\ photoData \in PhotoDataKinds
  /\ WidgetIdle

BootNext ==
  \/ \E stored \in StoredFlags :
       stored = localStorage["show-hobbies"] /\ DOMContentLoaded(stored)
  \/ \E n \in AllNames : \E o \in BootOutcomes(n) : FetchSettles(n, o)
  \/ AllSettledResume(GalleryPresent, carouselStatic)
  \/ \E ok \in BOOLEAN : CarouselScriptSettles(ok)
  \/ LoaderReturns
  \/ \E sup \in BOOLEAN : HandlerResumes(sup)
  \/ /\ themeTimers = {}
     /\ ~PollDue
     /\ "navigation100" \notin timers
     /\ HideDelayFires
  \/ /\ "carousel1000" \notin bootTimers
     /\ HideFadeFires
  \/ \E t \in {"theme100a", "theme100b"} : ThemeTimerFires(t)
  \/ WindowLoad
  \/ InteractionsPollReady
  \/ CarouselTimerFires
  \/ \E t \in {"navigation100", "navigation2000"} : NavigationTimerFires(t)
  \/ AppCarouselTimerFires
  \/ RetryTimerFires
  \/ ClickMenuToggle
  \/ \E step \in {-1, 1} : ClickCarouselButton(step)
  \/ ClickExpandButton
  \/ DebouncedToggleFires

BootSpec == BootInit /\ [][BootNext]_vars

(***************************************************************************)
(* The animation layer waiting for the components.  The DOMContentLoaded   *)
(* listener of animations.js calls waitForComponents(), whose              *)
(* checkComponents re-arms a 100 ms timer until its condition holds; a     *)
(* check that fails changes nothing.                                       *)
(***************************************************************************)
\* what a step of the animation layer leaves alone
outsideAnim == <<loaderVars, reloadVars, themeVars, bootVars, menuVars,
                 navVars, autoVars, expandVars, noticeVars>>

\* a check of checkComponents that finds its condition true: resolve(),
\* then initializeGSAPAnimations() / initializePureGSAPAnimations()
AnimationsPollResolves ==
  /\ pc # "start"
  /\ ~animationsInitialized
  /\ waitForComponents(animationsRev, rev, innerHTML, isLoaded)
  /\ animationsInitialized' = TRUE
  /\ UNCHANGED animationsRev
  /\ UNCHANGED outsideAnim

\* the shell page with every container in place, GSAP loaded and no
\* reduced-motion preference, running either revision of animations.js
AnimInit ==
  /\ rev \in Revisions
  /\ hasContainer = [n \in AllNames |-> TRUE]
  /\ innerHTML = [n \in AllNames |-> Empty]
  /\ loadPc = [n \in AllNames |-> "idle"]
  /\ promise = [n \in AllNames |-> "none"]
  /\ components = [n \in AllNames |-> NoEntry]
  /\ console = {}
  /\ pc = "start"
  /\ summary = NoSummary
  /\ showHobbies = TRUE
  /\ carousel = "unset"
  /\ isLoaded = FALSE
  /\ coreInitialized = FALSE
  /\ loadingScreen = "visible"
  /\ mainContent = "hidden"
  /\ pageError = "none"
  /\ timers = {}
  /\ fetches = [n \in AllNames |-> 0]
  /\ reloads = [n \in AllNames |-> 0]
  /\ reloadPc = [n \in AllNames |-> "idle"]
  /\ ThemeIdle
  /\ BootIdle
  /\ animationsRev \in AnimationsRevisions
  /\ animationsInitialized = FALSE
  /\ MenuIdle
  /\ NavIdle
  /\ AutoIdle
  /\ ExpandIdle
  /\ NoticeIdle
  /\ UtilIdle

AnimNext ==
  \/ Next
  \/ AnimationsPollResolves

\* the event loop keeps running: a fetch that can settle, a continuation
\* or a timer that can run, a poll whose condition holds, does
AnimFairness == WF_vars(AnimNext)

AnimSpec == AnimInit /\ [][AnimNext]_vars /\ AnimFairness

(***************************************************************************)
(* The mobile menu: the events that open and close it.  The toggle, the    *)
(* close button, the overlay and the mobile nav links get one listener     *)
(* from every run of initializeMobileMenu; the overlay also gets the touch *)
(* listeners of initializeTouchGestures.  The resize listener and a        *)
(* keydown listener are added by initializeApp of components.js.           *)
(***************************************************************************)
outsideMenu == <<loaderVars, reloadVars, themeVars, widgetsNotMenu>>

\* what of the carousel, the interactions and the clicks a menu event
\* leaves alone
bootNotMenu == <<carouselStatic, hasGallery, photoData, CarouselState,
                 carouselListeners, carouselInitialized, bootTimers,
                 navigationInits, interactionsPoll, interactionsInits,
                 expandListeners, pendingToggles, expandedItems, clicks,
                 lastClick>>

\* initializeMobileMenu found the toggle and the overlay and added its
\* listeners
MenuWired == MenuPresent /\ navigationInits > 0

\* initializeApp ran to its end, initializeResizeHandling included
ResizeWired == pc = "ready"

\* a control whose listeners all call closeMobileMenu(), clicked once
RECURSIVE closeByListeners(_, _)
closeByListeners(m, listeners) ==
  IF listeners = 0 THEN m
  ELSE closeByListeners(closeMobileMenu(m), listeners - 1)

\* the controls whose click listener closes the menu: .mobile-menu-close,
\* the overlay itself (e.target === overlay) and every .mobile-nav-link
ClosingControls == {"closeButton", "overlay", "navLink"}

ClickClosingControl(control) ==
  /\ MenuWired
  /\ SetMenu(closeByListeners(Menu, menuListeners))
  /\ lastMenuEvent' = control
  /\ UNCHANGED <<innerWidth, mobileUserAgent, appIsMobile, detectedWidth,
                 resizeTimer, touch>>
  /\ UNCHANGED <<bootNotMenu, outsideMenu>>

\* window.Navigation.toggleMobileMenu() called once the page is up
NavigationToggle ==
  /\ pc \in {"ready", "failed"}
  /\ MenuPresent
  /\ SetMenu(toggleMobileMenu(Menu))
  /\ lastMenuEvent' = "toggle"
  /\ UNCHANGED <<innerWidth, mobileUserAgent, appIsMobile, detectedWidth,
                 resizeTimer, touch>>
  /\ UNCHANGED <<bootNotMenu, outsideMenu>>

\* window.Navigation.closeMobileMenu() called once the page is up
NavigationClose ==
  /\ pc \in {"ready", "failed"}
  /\ MenuPresent
  /\ SetMenu(closeMobileMenu(Menu))
  /\ lastMenuEvent' = "close"
  /\ UNCHANGED <<innerWidth, mobileUserAgent, appIsMobile, detectedWidth,
                 resizeTimer, touch>>
  /\ UNCHANGED <<bootNotMenu, outsideMenu>>

\* the Escape key.  components.js and navigation.js both declare a global
\* initializeKeyboardNavigation; the keydown listener of the one closes
\* the menu whenever closeMobileMenu is defined, that of the other only
\* when NavigationState.mobileMenuOpen; which of the two a call reaches
\* depends on the order of the script tags
PressEscape(unconditional) ==
  /\ ResizeWired \/ navigationInits > 0
  /\ SetMenu(IF unconditional \/ mobileMenuOpen
             THEN closeMobileMenu(Menu) ELSE Menu)
  /\ lastMenuEvent' = "escape"
  /\ UNCHANGED <<innerWidth, mobileUserAgent, appIsMobile, detectedWidth,
                 resizeTimer, touch>>
  /\ UNCHANGED <<bootNotMenu, outsideMenu>>

\* touchstart on the overlay
TouchStart(x) ==
  /\ MenuWired
  /\ touch' = [startX |-> x, isDragging |-> TRUE]
  /\ UNCHANGED <<menuDom, mobileMenuOpen, innerWidth, mobileUserAgent,
                 appIsMobile, detectedWidth, resizeTimer, lastMenuEvent>>
  /\ UNCHANGED <<bootNotMenu, outsideMenu>>

\* touchmove on the overlay: diffX = startX - currentX
TouchMove(x) ==
  /\ MenuWired
  /\ touch.isDragging
  /\ IF touch.startX - x > SwipeThreshold
     THEN /\ SetMenu(closeByListeners(Menu, menuListeners))
          /\ touch' = [touch EXCEPT !.isDragging = FALSE]
          /\ lastMenuEvent' = "swipeLeft"
     ELSE UNCHANGED <<menuDom, mobileMenuOpen, touch, lastMenuEvent>>
  /\ UNCHANGED <<innerWidth, mobileUserAgent, appIsMobile, detectedWidth,
                 resizeTimer>>
  /\ UNCHANGED <<bootNotMenu, outsideMenu>>

\* touchend on the overlay
TouchEnd ==
  /\ MenuWired
  /\ touch.isDragging
  /\ touch' = [touch EXCEPT !.isDragging = FALSE]
  /\ UNCHANGED <<menuDom, mobileMenuOpen, innerWidth, mobileUserAgent,
                 appIsMobile, detectedWidth, resizeTimer, lastMenuEvent>>
  /\ UNCHANGED <<bootNotMenu, outsideMenu>>

\* the window is resized to width w; the resize listener, once added,
\* clears its timer and sets it again
WindowResize(w) ==
  /\ pc \in {"ready", "failed"}
  /\ w # innerWidth
  /\ innerWidth' = w
  /\ resizeTimer' = (ResizeWired \/ resizeTimer)
  /\ UNCHANGED <<menuDom, mobileMenuOpen, mobileUserAgent, appIsMobile,
                 detectedWidth, touch, lastMenuEvent>>
  /\ UNCHANGED <<bootNotMenu, outsideMenu>>

\* the 250 ms timer of the resize listener: detectMobile(), and
\* closeMobileMenu() when App.isMobile changed to false
ResizeTimerFires ==
  /\ resizeTimer
  /\ resizeTimer' = FALSE
  /\ RunDetectMobile
  /\ SetMenu(IF appIsMobile # detectMobile(innerWidth, mobileUserAgent)
                /\ ~detectMobile(innerWidth, mobileUserAgent)
             THEN closeMobileMenu(Menu) ELSE Menu)
  /\ lastMenuEvent' = IF detectedWidth <= MobileBreakpoint
                         /\ innerWidth > MobileBreakpoint
                      THEN "resizeToDesktop" ELSE "resize"
  /\ UNCHANGED <<innerWidth, mobileUserAgent, touch>>
  /\ UNCHANGED <<bootNotMenu, outsideMenu>>

\* the page of BootPage without a gallery, in a window of either width, in
\* a browser of either kind, the overlay with or without aria-hidden
MenuInit ==
  /\ BootPage
  /\ carouselStatic = FALSE
  /\ hasGallery = FALSE
  /\ photoData = [kind |-> "missing", count |-> 0]
  /\ AnimIdle
  /\ NavIdle
  /\ AutoIdle
  /\ ExpandIdle
  /\ NoticeIdle
  /\ UtilIdle
  /\ menuDom \in {MenuDomLoaded(h) : h \in {"absent", "true"}}
  /\ innerWidth \in Widths
  /\ mobileUserAgent \in BOOLEAN
  /\ appIsMobile = FALSE
  /\ detectedWidth = innerWidth
  /\ resizeTimer = FALSE
  /\ touch = NoTouch
  /\ lastMenuEvent = "none"

MenuNext ==
  \/ \E stored \in StoredFlags :
       stored = localStorage["show-hobbies"] /\ DOMContentLoaded(stored)
  \/ \E n \in AllNames : FetchSettles(n, "ok")
  \/ AllSettledResume(GalleryPresent, carouselStatic)
  \/ LoaderReturns
  \/ \E sup \in BOOLEAN : HandlerResumes(sup)
  \/ /\ themeTimers = {}
     /\ ~PollDue
     /\ "navigation100" \notin timers
     /\ HideDelayFires
  \/ HideFadeFires
  \/ \E t \in {"theme100a", "theme100b"} : ThemeTimerFires(t)
  \/ WindowLoad
  \/ InteractionsPollReady
  \/ \E t \in {"navigation100", "navigation2000"} : NavigationTimerFires(t)
  \/ AppCarouselTimerFires
  \/ ClickMenuToggle
  \/ \E control \in ClosingControls : ClickClosingControl(control)
  \/ NavigationToggle
  \/ NavigationClose
  \/ \E unconditional \in BOOLEAN : PressEscape(unconditional)
  \/ \E x \in TouchXs : TouchStart(x)
  \/ \E x \in TouchXs : TouchMove(x)
  \/ TouchEnd
  \/ \E w \in Widths : WindowResize(w)
  \/ ResizeTimerFires

MenuSpec == MenuInit /\ [][MenuNext]_vars

(***************************************************************************)
(* Scrolling.  Every scroll listener drops the events that arrive while    *)
(* its 16 ms timer is pending; the timer reads the scroll position when it *)
(* fires.  The observer queues an entry for every section that starts to   *)
(* intersect and delivers the queue in a task of its own.                  *)
(***************************************************************************)
MaxScrolls == 2

outsideNav == <<loaderVars, reloadVars, themeVars, bootVars, widgetsNotNav>>

\* the observer exists once initializeApp ran initializeIntersectionObserver
ObserverCreated == pc = "ready"

\* what the observer adds to its queue when the page is at position top
observerLooks(top) ==
  /\ observed' = Intersecting(top)
  /\ pendingEntries' =
       pendingEntries \o InDocumentOrder(Intersecting(top) \ observed)

\* the first look of the observer, at the rendering step after observe()
ObserverFirstLook ==
  /\ ObserverCreated
  /\ ~observing
  /\ observing' = TRUE
  /\ observerLooks(scrollTop)
  /\ UNCHANGED <<scrollTop, activeSection, activeLinks, scrollTimeouts,
                 scrolls>>
  /\ UNCHANGED outsideNav

\* the visitor scrolls to position y: the scroll event reaches every
\* listener, the observer looks again
Scroll(y) ==
  /\ navigationInits > 0
  /\ scrolls < MaxScrolls
  /\ y # scrollTop
  /\ scrolls' = scrolls + 1
  /\ scrollTop' = y
  /\ scrollTimeouts' = [l \in ScrollListeners |->
                          scrollTimeouts[l] \/ l <= navigationInits]
  /\ IF observing THEN observerLooks(y)
                  ELSE UNCHANGED <<observed, pendingEntries>>
  /\ UNCHANGED <<activeSection, activeLinks, observing>>
  /\ UNCHANGED outsideNav

\* the 16 ms timer of listener l: updateActiveNavOnScroll()
ScrollTimerFires(l) ==
  /\ scrollTimeouts[l]
  /\ scrollTimeouts' = [scrollTimeouts EXCEPT ![l] = FALSE]
  /\ activeSection' = scrollSection(scrollTop)
  /\ activeLinks' = IF scrollSection(scrollTop) # activeSection
                    THEN linksOf(scrollSection(scrollTop)) ELSE activeLinks
  /\ UNCHANGED <<scrollTop, observing, observed, pendingEntries, scrolls>>
  /\ UNCHANGED outsideNav

\* the observer's callback: updateActiveNavigation(id) for every
\* intersecting entry in turn
ObserverNotifies ==
  /\ pendingEntries # <<>>
  /\ pendingEntries' = <<>>
  /\ activeSection' = pendingEntries[Len(pendingEntries)]
  /\ activeLinks' = linksOf(pendingEntries[Len(pendingEntries)])
  /\ UNCHANGED <<scrollTop, scrollTimeouts, observing, observed, scrolls>>
  /\ UNCHANGED outsideNav

\* the page of BootPage without a gallery, at the top
NavInit ==
  /\ BootPage
  /\ carouselStatic = FALSE
  /\ hasGallery = FALSE
  /\ photoData = [kind |-> "missing", count |-> 0]
  /\ WidgetIdle

NavNext ==
  \/ \E stored \in StoredFlags :
       stored = localStorage["show-hobbies"] /\ DOMContentLoaded(stored)
  \/ \E n \in AllNames : FetchSettles(n, "ok")
  \/ AllSettledResume(GalleryPresent, carouselStatic)
  \/ LoaderReturns
  \/ \E sup \in BOOLEAN : HandlerResumes(sup)
  \/ /\ themeTimers = {}
     /\ ~PollDue
     /\ "navigation100" \notin timers
     /\ HideDelayFires
  \/ HideFadeFires
  \/ \E t \in {"theme100a", "theme100b"} : ThemeTimerFires(t)
  \/ WindowLoad
  \/ InteractionsPollReady
  \/ \E t \in {"navigation100", "navigation2000"} : NavigationTimerFires(t)
  \/ AppCarouselTimerFires
  \/ ObserverFirstLook
  \/ \E y \in ScrollTops : Scroll(y)
  \/ \E l \in ScrollListeners : ScrollTimerFires(l)
  \/ ObserverNotifies

NavSpec == NavInit /\ [][NavNext]_vars

(***************************************************************************)
(* The gallery in use: indicator dots, play/pause, swipes, keys, the       *)
(* autoplay interval and window.PhotoCarousel.navigate.  setupIndicatorDots*)
(* rebuilds the dots on every run, so a dot carries one listener; the      *)
(* other controls get one listener per run of initializePhotoCarousel that *)
(* reaches its setup calls.                                                *)
(***************************************************************************)
outsideAuto == <<loaderVars, reloadVars, themeVars, widgetsNotAuto>>

\* what of the boot state an event of the gallery leaves alone
bootNotCarousel == <<carouselStatic, hasGallery, photoData,
                     carouselListeners, carouselInitialized, bootTimers,
                     navigationInits, mobileMenuOpen, interactionsPoll,
                     interactionsInits, expandListeners, pendingToggles,
                     expandedItems, clicks, lastClick>>

\* the controls of the gallery carry listeners
CarouselWired == GalleryPresent /\ carouselListeners > 0

\* the visitor can use the gallery: the loading screen is gone
GalleryInUse == CarouselWired /\ loadingScreen = "hidden"

\* the indices window.PhotoCarousel.navigate is called with
NavigateInputs == -2 .. DefaultPhotos + 1

\* the clientX values of the touches on the gallery
GalleryXs == {0, swipeThreshold, swipeThreshold + 1}

\* the visitor clicks the prev (step = -1) or the next (step = 1) button
ClickGalleryNav(step) ==
  /\ GalleryInUse
  /\ SetCar(clickCarouselButton(Car, step, carouselListeners))
  /\ navigatedWhile' = ManualNavigation(TRUE)
  /\ UNCHANGED <<bootNotCarousel, outsideAuto>>

\* the visitor clicks indicator dot i
ClickIndicatorDot(i) ==
  /\ GalleryInUse
  /\ i \in 0 .. CarouselState.photos - 1
  /\ SetCar(pauseAutoPlay(navigateToPhoto(Car, i)))
  /\ navigatedWhile' = ManualNavigation(TRUE)
  /\ UNCHANGED <<bootNotCarousel, outsideAuto>>

\* the visitor clicks the play/pause button
ClickPlayPause ==
  /\ GalleryInUse
  /\ SetCar(clickPlayPause(Car, carouselListeners))
  /\ navigatedWhile' = IF CarouselState'.isPlaying THEN "none"
                       ELSE navigatedWhile
  /\ UNCHANGED <<bootNotCarousel, outsideAuto>>

\* touchstart on .gallery-display at clientX x
GalleryTouchStart(x) ==
  /\ GalleryInUse
  /\ SetCar([Car EXCEPT !.touchStartX = x])
  /\ UNCHANGED navigatedWhile
  /\ UNCHANGED <<bootNotCarousel, outsideAuto>>

\* touchend on .gallery-display at clientX x: handleSwipe()
GalleryTouchEnd(x) ==
  /\ GalleryInUse
  /\ SetCar(touchEnds(Car, x, carouselListeners))
  /\ navigatedWhile' =
       ManualNavigation(CarouselState.touchStartX - x > swipeThreshold
                        \/ x - CarouselState.touchStartX > swipeThreshold)
  /\ UNCHANGED <<bootNotCarousel, outsideAuto>>

\* the visitor presses the left (step = -1) or the right (step = 1) arrow
\* key
PressArrow(step, inViewport) ==
  /\ GalleryInUse
  /\ SetCar(pressArrow(Car, step, inViewport, carouselListeners))
  /\ navigatedWhile' = ManualNavigation(inViewport)
  /\ UNCHANGED <<bootNotCarousel, outsideAuto>>

\* the visitor presses the space bar with the gallery in the viewport
PressSpace ==
  /\ GalleryInUse
  /\ SetCar(clickPlayPause(Car, carouselListeners))
  /\ navigatedWhile' = IF CarouselState'.isPlaying THEN "none"
                       ELSE navigatedWhile
  /\ UNCHANGED <<bootNotCarousel, outsideAuto>>

\* a running autoplay interval ticks (every 4 s):
\* navigateToPhoto(currentIndex + 1)
AutoplayTick ==
  /\ liveIntervals > 0
  /\ SetCar(navigateToPhoto(Car, CarouselState.currentIndex + 1))
  /\ UNCHANGED navigatedWhile
  /\ UNCHANGED <<bootNotCarousel, outsideAuto>>

\* window.PhotoCarousel.navigate(i)
PhotoCarouselNavigate(i) ==
  /\ GalleryInUse
  /\ SetCar(navigateToPhoto(Car, i))
  /\ UNCHANGED navigatedWhile
  /\ UNCHANGED <<bootNotCarousel, outsideAuto>>

\* the page of BootPage with a gallery in its hobbies fragment
CarouselInit ==
  /\ BootPage
  /\ carouselStatic \in BOOLEAN
  /\ hasGallery = TRUE
  /\ photoData \in PhotoDataKinds
  /\ WidgetIdle

CarouselNext ==
  \/ \E stored \in StoredFlags :
       stored = localStorage["show-hobbies"] /\ DOMContentLoaded(stored)
  \/ \E n \in AllNames : FetchSettles(n, "ok")
  \/ AllSettledResume(GalleryPresent, carouselStatic)
  \/ \E ok \in BOOLEAN : CarouselScriptSettles(ok)
  \/ LoaderReturns
  \/ \E sup \in BOOLEAN : HandlerResumes(sup)
  \/ /\ themeTimers = {}
     /\ ~PollDue
     /\ "navigation100" \notin timers
     /\ HideDelayFires
  \/ /\ "carousel1000" \notin bootTimers
     /\ HideFadeFires
  \/ \E t \in {"theme100a", "theme100b"} : ThemeTimerFires(t)
  \/ WindowLoad
  \/ InteractionsPollReady
  \/ CarouselTimerFires
  \/ \E t \in {"navigation100", "navigation2000"} : NavigationTimerFires(t)
  \/ AppCarouselTimerFires
  \/ RetryTimerFires
  \/ \E step \in {-1, 1} : ClickGalleryNav(step)
  \/ \E i \in 0 .. DefaultPhotos - 1 : ClickIndicatorDot(i)
  \/ ClickPlayPause
  \/ \E x \in GalleryXs : GalleryTouchStart(x)
  \/ \E x \in GalleryXs : GalleryTouchEnd(x)
  \/ \E step \in {-1, 1} : \E inViewport \in BOOLEAN :
       PressArrow(step, inViewport)
  \/ PressSpace
  \/ AutoplayTick
  \/ \E i \in NavigateInputs : PhotoCarouselNavigate(i)

CarouselSpec == CarouselInit /\ [][CarouselNext]_vars

(***************************************************************************)
(* The expandable items in use.  Enter or the space bar on an expand       *)
(* button calls toggleExpandableItem at once, in every keydown listener    *)
(* the button carries; the 400 ms timers fire in the order they were set.  *)
(***************************************************************************)
MaxToggles == 3

outsideExpand == <<loaderVars, reloadVars, themeVars, widgetsNotExpand>>

\* what of the boot state a toggle leaves alone
bootNotExpand == <<carouselStatic, hasGallery, photoData, CarouselState,
                   carouselListeners, carouselInitialized, bootTimers,
                   navigationInits, mobileMenuOpen, interactionsPoll,
                   interactionsInits, expandListeners, pendingToggles,
                   clicks, lastClick>>

\* the visitor can use the expand buttons: they carry listeners and the
\* loading screen is gone
ExpandInUse ==
  ExpandButtonPresent /\ expandListeners > 0 /\ loadingScreen = "hidden"

\* the visitor presses Enter or the space bar on the expand button of item
\* i, passed milliseconds after the last toggle
PressEnterOnButton(i, passed) ==
  /\ ExpandInUse
  /\ toggles < MaxToggles
  /\ toggles' = toggles + 1
  /\ now' = now + passed
  /\ RunToggles(i, expandListeners)
  /\ UNCHANGED itemTitle
  /\ UNCHANGED <<bootNotExpand, outsideExpand>>

\* the oldest 400 ms timer fires
CleanupTimerFires ==
  /\ cleanupTimers # <<>>
  /\ cleanupTimers' = Tail(cleanupTimers)
  /\ itemDom' = [itemDom EXCEPT ![Head(cleanupTimers)[1]] =
                   cleanUp(@, Head(cleanupTimers)[2])]
  /\ UNCHANGED <<expandedItems, itemTitle, now, itemOp, lastToggle, toggles>>
  /\ UNCHANGED <<bootNotExpand, outsideExpand>>

\* the page of BootPage without a gallery; each of its two expandable
\* items with one of the titles or with none
ExpandInit ==
  /\ BootPage
  /\ carouselStatic = FALSE
  /\ hasGallery = FALSE
  /\ photoData = [kind |-> "missing", count |-> 0]
  /\ AnimIdle
  /\ MenuIdle
  /\ NavIdle
  /\ AutoIdle
  /\ NoticeIdle
  /\ UtilIdle
  /\ itemTitle \in [Items -> Titles \cup {0}]
  /\ itemDom = [i \in Items |-> ItemDomLoaded]
  /\ cleanupTimers = <<>>
  /\ now = 0
  /\ itemOp = [i \in Items |-> "none"]
  /\ lastToggle = NoToggle
  /\ toggles = 0

ExpandNext ==
  \/ \E stored \in StoredFlags :
       stored = localStorage["show-hobbies"] /\ DOMContentLoaded(stored)
  \/ \E n \in AllNames : FetchSettles(n, "ok")
  \/ AllSettledResume(GalleryPresent, carouselStatic)
  \/ LoaderReturns
  \/ \E sup \in BOOLEAN : HandlerResumes(sup)
  \/ /\ themeTimers = {}
     /\ ~PollDue
     /\ "navigation100" \notin timers
     /\ HideDelayFires
  \/ HideFadeFires
  \/ \E t \in {"theme100a", "theme100b"} : ThemeTimerFires(t)
  \/ WindowLoad
  \/ InteractionsPollReady
  \/ \E t \in {"navigation100", "navigation2000"} : NavigationTimerFires(t)
  \/ AppCarouselTimerFires
  \/ \E i \in Items : \E passed \in {0, 1} : PressEnterOnButton(i, passed)
  \/ CleanupTimerFires

ExpandSpec == ExpandInit /\ [][ExpandNext]_vars

(***************************************************************************)
(* The toasts and the copy buttons in use.  Timers of different delays     *)
(* (auto-hide, 300 ms removal, 500 ms reset) fire in any order; the        *)
(* removals, all of 300 ms, fire in the order they were set.               *)
(***************************************************************************)
MaxToasts == 2
MaxCopyClicks == 2
MaxHides == 2

\* the durations of showCopySuccess, showCopyError, the default of show,
\* and a toast that is not hidden by a timer
CopySuccessDuration == 2500
CopyErrorDuration == 4000
DefaultDuration == 3000

\* ToastManager.show({duration}): the id is `toast-${++toastCounter}`
show(t, duration) ==
  LET toastId == t.toastCounter + 1
  IN  [t EXCEPT !.toastCounter = toastId,
                !.toastDom = @ \cup {toastId},
                !.toasts = @ \cup {toastId},
                !.autoHide = IF duration > 0 THEN @ \cup {toastId} ELSE @,
                !.shown = Append(@, [id |-> toastId,
                                     duration |-> duration])]

\* ToastManager.hide(toastId), with the 300 ms timer left out
hide_NoRemoval(t, toastId) ==
  t

\* ToastManager.hide(toastId)
hide(t, toastId) ==
  IF toastId \notin t.toasts THEN t
  ELSE [t EXCEPT !.removals = Append(@, toastId)]

\* ToastManager.hideAll(): hide for every id of the map, in the order
\* they were added
RECURSIVE hideEach(_, _)
hideEach(t, ids) ==
  IF ids = {} THEN t
  ELSE LET first == CHOOSE i \in ids : \A j \in ids : i <= j
       IN  hideEach(hide(t, first), ids \ {first})

hideAll(t) == hideEach(t, t.toasts)

\* the timer of hide: the toast leaves the page, if it is still there, and
\* the map
removeToast(t, toastId) ==
  [t EXCEPT !.toastDom = @ \ {toastId},
            !.toasts = @ \ {toastId}]

\* window.toastManager as the page holds it
ToastManager ==
  [toastCounter |-> toastCounter, toasts |-> toasts, toastDom |-> toastDom,
   shown |-> shown, autoHide |-> autoHide, removals |-> removals]

SetToastManager(t) ==
  /\ toastCounter' = t.toastCounter
  /\ toasts' = t.toasts
  /\ toastDom' = t.toastDom
  /\ shown' = t.shown
  /\ autoHide' = t.autoHide
  /\ removals' = t.removals

\* document.querySelectorAll('[data-copy]') finds the buttons of the
\* fetched contact fragment
CopyButtonPresent == innerHTML["contact"] = <<"html", "contact">>

\* every initializeCopyToClipboard adds one click listener to each button
copyListeners == IF CopyButtonPresent THEN interactionsInits ELSE 0

\* the visitor sees the page and the interactions are wired
NoticeInUse == interactionsInits > 0 /\ loadingScreen = "hidden"

\* `if (button.dataset.copying === 'true') return`, never returning
copyAccepts_Always(flag) == TRUE

\* `if (button.dataset.copying === 'true') return`
copyAccepts(flag) == flag # "true"

\* the copy buttons with the toasts as the page holds them
Notices ==
  [copying |-> copying, copyRun |-> copyRun, resetTimers |-> resetTimers,
   copyLog |-> copyLog, manager |-> ToastManager]

SetNotices(n) ==
  /\ copying' = n.copying
  /\ copyRun' = n.copyRun
  /\ resetTimers' = n.resetTimers
  /\ copyLog' = n.copyLog
  /\ SetToastManager(n.manager)

\* the listener after the clipboard call: showCopySuccess when the text
\* was copied by the API or by fallbackCopyToClipboard, showCopyError
\* otherwise; then the 500 ms timer
finishCopy(n, b, copied) ==
  [n EXCEPT !.manager = show(@, IF copied THEN CopySuccessDuration
                                 ELSE CopyErrorDuration),
            !.copyLog[b].toasts = @ + 1,
            !.resetTimers[b] = @ + 1]

\* one click listener of button b: without navigator.clipboard the call
\* throws at once and the listener goes on with the fallback
copyListener(n, b, api, fallbackWorks) ==
  IF ~copyAccepts(n.copying[b]) THEN n
  ELSE LET marked == [n EXCEPT !.copying[b] = "true",
                               !.copyLog[b].accepted = @ + 1]
       IN  IF api THEN [marked EXCEPT !.copyRun[b] = @ + 1]
           ELSE finishCopy(marked, b, fallbackWorks)

\* a click on button b with its listeners
RECURSIVE clickCopyButton(_, _, _, _, _)
clickCopyButton(n, b, api, fallbackWorks, listeners) ==
  IF listeners = 0 THEN n
  ELSE clickCopyButton(copyListener(n, b, api, fallbackWorks), b, api,
                       fallbackWorks, listeners - 1)

outsideNotice == <<loaderVars, reloadVars, themeVars, bootVars,
                   widgetsNotNotice, utilVars, screenElapsed>>

\* toasts shown so far and those the waiting listeners will show
ToastsDue == toastCounter + copyRun[1] + copyRun[2]

\* the visitor clicks copy button b
ClickCopyButton(b, fallbackWorks) ==
  /\ NoticeInUse
  /\ copyListeners > 0
  /\ copyClicks < MaxCopyClicks
  /\ ToastsDue < MaxToasts
  /\ copyClicks' = copyClicks + 1
  /\ LET n == clickCopyButton(Notices, b, clipboardApi, fallbackWorks,
                              copyListeners)
     IN  /\ SetNotices(n)
         /\ lastCopy' = [button |-> b, flag |-> copying[b],
                         accepted |-> n.copyLog[b].accepted
                                        - copyLog[b].accepted]
  /\ UNCHANGED <<clipboardApi, explicitHides, lastHide, hides>>
  /\ UNCHANGED outsideNotice

\* navigator.clipboard.writeText settles and a waiting listener of button
\* b goes on
ClipboardSettles(b, resolved, fallbackWorks) ==
  /\ copyRun[b] > 0
  /\ SetNotices(finishCopy([Notices EXCEPT !.copyRun[b] = @ - 1], b,
                           resolved \/ fallbackWorks))
  /\ UNCHANGED <<clipboardApi, lastCopy, copyClicks, explicitHides,
                 lastHide, hides>>
  /\ UNCHANGED outsideNotice

\* a 500 ms timer of button b fires
CopyResetFires(b) ==
  /\ resetTimers[b] > 0
  /\ resetTimers' = [resetTimers EXCEPT ![b] = @ - 1]
  /\ copying' = [copying EXCEPT ![b] = "false"]
  /\ UNCHANGED <<clipboardApi, copyRun, copyLog, lastCopy, copyClicks>>
  /\ UNCHANGED <<toastVars, outsideNotice>>

\* the page is up and its initialization timers have fired
ToastInUse == TimersDrained /\ loadingScreen = "hidden"

\* a script calls window.toastManager.show with its own duration
CallShow(duration) ==
  /\ ToastInUse
  /\ ToastsDue < MaxToasts
  /\ SetToastManager(show(ToastManager, duration))
  /\ UNCHANGED <<explicitHides, lastHide, hides>>
  /\ UNCHANGED <<copyVars, outsideNotice>>

\* hide is asked for toastId by a click or a call
RunHide(toastId) ==
  /\ hides < MaxHides
  /\ hides' = hides + 1
  /\ SetToastManager(hide(ToastManager, toastId))
  /\ explicitHides' = explicitHides \cup {toastId}
  /\ lastHide' = [id |-> toastId, known |-> toastId \in toasts,
                  changed |-> hide(ToastManager, toastId) # ToastManager]
  /\ UNCHANGED <<copyVars, outsideNotice>>

\* the visitor clicks the close button of a toast on the page
ClickToastClose(toastId) ==
  /\ toastId \in toastDom
  /\ RunHide(toastId)

\* a script calls window.toastManager.hide with any id
CallHide(toastId) ==
  /\ ToastInUse
  /\ RunHide(toastId)

\* a script calls window.toastManager.hideAll
CallHideAll ==
  /\ ToastInUse
  /\ hides < MaxHides
  /\ hides' = hides + 1
  /\ SetToastManager(hideAll(ToastManager))
  /\ explicitHides' = explicitHides \cup toasts
  /\ UNCHANGED lastHide
  /\ UNCHANGED <<copyVars, outsideNotice>>

\* the auto-hide timer of a toast fires
AutoHideFires(toastId) ==
  /\ toastId \in autoHide
  /\ SetToastManager(hide([ToastManager EXCEPT !.autoHide = @ \ {toastId}],
                          toastId))
  /\ lastHide' = [id |-> toastId, known |-> toastId \in toasts,
                  changed |-> hide(ToastManager, toastId) # ToastManager]
  /\ UNCHANGED <<explicitHides, hides>>
  /\ UNCHANGED <<copyVars, outsideNotice>>

\* the oldest 300 ms timer of hide fires
RemovalFires ==
  /\ removals # <<>>
  /\ SetToastManager(removeToast([ToastManager EXCEPT !.removals = Tail(@)],
                                 Head(removals)))
  /\ UNCHANGED <<explicitHides, lastHide, hides>>
  /\ UNCHANGED <<copyVars, outsideNotice>>

\* the page of BootPage without a gallery, with or without
\* navigator.clipboard
NoticeInit ==
  /\ BootPage
  /\ carouselStatic = FALSE
  /\ hasGallery = FALSE
  /\ photoData = [kind |-> "missing", count |-> 0]
  /\ AnimIdle
  /\ MenuIdle
  /\ NavIdle
  /\ AutoIdle
  /\ ExpandIdle
  /\ UtilIdle
  /\ clipboardApi \in BOOLEAN
  /\ copying = [b \in CopyButtons |-> "absent"]
  /\ copyRun = [b \in CopyButtons |-> 0]
  /\ resetTimers = [b \in CopyButtons |-> 0]
  /\ copyLog = [b \in CopyButtons |-> [accepted |-> 0, toasts |-> 0]]
  /\ lastCopy = NoCopy
  /\ copyClicks = 0
  /\ toastCounter = 0
  /\ toasts = {}
  /\ toastDom = {}
  /\ shown = <<>>
  /\ autoHide = {}
  /\ removals = <<>>
  /\ explicitHides = {}
  /\ lastHide = NoHide
  /\ hides = 0
  /\ screenElapsed = 0

\* the page comes up
NoticeBoot ==
  \/ \E stored \in StoredFlags :
       stored = localStorage["show-hobbies"] /\ DOMContentLoaded(stored)
  \/ \E n \in AllNames : FetchSettles(n, "ok")
  \/ AllSettledResume(GalleryPresent, carouselStatic)
  \/ LoaderReturns
  \/ \E sup \in BOOLEAN : HandlerResumes(sup)
  \/ /\ themeTimers = {}
     /\ ~PollDue
     /\ "navigation100" \notin timers
     /\ HideDelayFires
  \/ HideFadeFires
  \/ \E t \in {"theme100a", "theme100b"} : ThemeTimerFires(t)
  \/ WindowLoad
  \/ InteractionsPollReady
  \/ \E t \in {"navigation100", "navigation2000"} : NavigationTimerFires(t)
  \/ AppCarouselTimerFires

\* navigator.clipboard.writeText settles, timers fire
NoticeTimers ==
  \/ \E b \in CopyButtons : \E resolved, fallbackWorks \in BOOLEAN :
       ClipboardSettles(b, resolved, fallbackWorks)
  \/ \E b \in CopyButtons : CopyResetFires(b)
  \/ \E toastId \in 1 .. MaxToasts : AutoHideFires(toastId)
  \/ RemovalFires

\* the copy buttons in use
CopyNext ==
  \/ NoticeBoot
  \/ \E b \in CopyButtons : \E fallbackWorks \in BOOLEAN :
       ClickCopyButton(b, fallbackWorks)
  \/ NoticeTimers

\* window.toastManager in use
ToastNext ==
  \/ NoticeBoot
  \/ \E duration \in {0, DefaultDuration} : CallShow(duration)
  \/ \E toastId \in 1 .. MaxToasts : ClickToastClose(toastId)
  \/ \E toastId \in 1 .. MaxToasts + 1 : CallHide(toastId)
  \/ CallHideAll
  \/ \E toastId \in 1 .. MaxToasts : AutoHideFires(toastId)
  \/ RemovalFires

\* a promise that is waited for settles and a timer that is set fires
NoticeFairness ==
  /\ \A b \in CopyButtons :
       /\ WF_vars(\E resolved, fallbackWorks \in BOOLEAN :
                    ClipboardSettles(b, resolved, fallbackWorks))
       /\ WF_vars(CopyResetFires(b))
  /\ \A toastId \in 1 .. MaxToasts : WF_vars(AutoHideFires(toastId))
  /\ WF_vars(RemovalFires)

CopySpec == NoticeInit /\ [][CopyNext]_vars /\ NoticeFairness

ToastSpec == NoticeInit /\ [][ToastNext]_vars /\ NoticeFairness

(***************************************************************************)
(* The loader of the revision that loads the carousel script.              *)
(***************************************************************************)
ScriptInit == Init /\ rev = "components_b"

ScriptSpec == ScriptInit /\ [][Next]_vars /\ Fairness

\* the same loader, where the browser fires the two timers of
\* hideLoadingScreen once they are set
ScreenFairness == WF_vars(HideDelayFires) /\ WF_vars(HideFadeFires)

ScreenSpec == ScriptInit /\ [][Next]_vars /\ ScreenFairness

(***************************************************************************)
(* debounce and throttle in use.  The clock counts milliseconds; a timer   *)
(* fires at the millisecond it is due, before the clock goes on and before *)
(* any call of that millisecond.                                           *)
(***************************************************************************)
MaxTime == 6
MaxCalls == 4

\* debounce of utils.js and of main.js takes (func, wait, immediate), that
\* of navigation.js (func, wait)
DebounceRevisions == {"utils", "main", "navigation"}

\* the wait of a debounce and the limit of a throttle
Waits == {2, 3}

\* what a call passes
Arguments == {"a", "b"}

\* the wrapped function with its closure
Wrapper ==
  [timeout |-> timeout, inThrottle |-> inThrottle, timers |-> utilTimers,
   invoked |-> utilInvoked]

SetWrapper(u) ==
  /\ timeout' = u.timeout
  /\ inThrottle' = u.inThrottle
  /\ utilTimers' = u.timers
  /\ utilInvoked' = u.invoked

\* func(...args) at the time t
invoke(u, t, argument) ==
  [u EXCEPT !.invoked = Append(@, [time |-> t, argument |-> argument])]

\* executedFunction(...args) without clearTimeout(timeout)
executedFunction_NoClear(u, w, t, argument) ==
  LET callNow == w.rev # "navigation" /\ w.immediate /\ ~u.timeout
      set == [u EXCEPT !.timers = Append(@, [due |-> t + w.wait,
                                             argument |-> argument]),
                       !.timeout = TRUE]
  IN  IF callNow THEN invoke(set, t, argument) ELSE set

\* executedFunction(...args) of the debounce w at the time t:
\* clearTimeout, setTimeout(later, wait), and func at once if callNow
executedFunction(u, w, t, argument) ==
  LET callNow == w.rev # "navigation" /\ w.immediate /\ ~u.timeout
      set == [u EXCEPT !.timers = <<[due |-> t + w.wait,
                                     argument |-> argument]>>,
                       !.timeout = TRUE]
  IN  IF callNow THEN invoke(set, t, argument) ELSE set

\* later() of the oldest timer: utils.js and main.js set timeout to null
\* and call func unless immediate; navigation.js clears the timer that has
\* fired, which leaves timeout as it is, and calls func
later(u, w, t) ==
  LET timer == Head(u.timers)
      fired == [u EXCEPT !.timers = Tail(@)]
  IN  IF w.rev = "navigation" THEN invoke(fired, t, timer.argument)
      ELSE LET cleared == [fired EXCEPT !.timeout = FALSE]
           IN  IF w.immediate THEN cleared
               ELSE invoke(cleared, t, timer.argument)

\* the function throttle returns, never setting inThrottle
throttled_NoFlag(u, w, t, argument) ==
  IF u.inThrottle THEN u
  ELSE [invoke(u, t, argument) EXCEPT
          !.timers = Append(@, [due |-> t + w.wait, argument |-> argument])]

\* the function throttle returns, called at the time t
throttled(u, w, t, argument) ==
  IF u.inThrottle THEN u
  ELSE [invoke(u, t, argument) EXCEPT
          !.inThrottle = TRUE,
          !.timers = Append(@, [due |-> t + w.wait, argument |-> argument])]

\* the timer of throttle: inThrottle = false
release(u) == [u EXCEPT !.timers = Tail(@), !.inThrottle = FALSE]

outsideUtil == <<loaderVars, reloadVars, themeVars, bootVars,
                 widgetsNotNotice, copyVars, toastVars, screenElapsed>>

\* no timer is due at this millisecond
NoTimerDue == \A k \in DOMAIN utilTimers : utilTimers[k].due > clock

\* a millisecond passes
Tick ==
  /\ clock < MaxTime
  /\ NoTimerDue
  /\ clock' = clock + 1
  /\ UNCHANGED <<wrapped, timeout, inThrottle, utilTimers, utilCalls,
                 utilInvoked>>
  /\ UNCHANGED outsideUtil

\* the wrapped function is called
CallWrapped(argument) ==
  /\ Len(utilCalls) < MaxCalls
  /\ NoTimerDue
  /\ utilCalls' = Append(utilCalls, [time |-> clock, argument |-> argument])
  /\ SetWrapper(IF wrapped.kind = "debounce"
                THEN executedFunction(Wrapper, wrapped, clock, argument)
                ELSE throttled(Wrapper, wrapped, clock, argument))
  /\ UNCHANGED <<clock, wrapped>>
  /\ UNCHANGED outsideUtil

\* the oldest timer of a debounce is due
LaterFires ==
  /\ wrapped.kind = "debounce"
  /\ utilTimers # <<>>
  /\ Head(utilTimers).due <= clock
  /\ SetWrapper(later(Wrapper, wrapped, clock))
  /\ UNCHANGED <<clock, wrapped, utilCalls>>
  /\ UNCHANGED outsideUtil

\* the timer of a throttle is due
ThrottleTimerFires ==
  /\ wrapped.kind = "throttle"
  /\ utilTimers # <<>>
  /\ Head(utilTimers).due <= clock
  /\ SetWrapper(release(Wrapper))
  /\ UNCHANGED <<clock, wrapped, utilCalls>>
  /\ UNCHANGED outsideUtil

\* the rest of the page, before it loads
UtilPage ==
  /\ BootPage
  /\ carouselStatic = FALSE
  /\ hasGallery = FALSE
  /\ photoData = [kind |-> "missing", count |-> 0]
  /\ AnimIdle
  /\ MenuIdle
  /\ NavIdle
  /\ AutoIdle
  /\ ExpandIdle
  /\ NoticeIdle
  /\ clock = 0
  /\ timeout = FALSE
  /\ inThrottle = FALSE
  /\ utilTimers = <<>>
  /\ utilCalls = <<>>
  /\ utilInvoked = <<>>

\* debounce(func, wait, immediate) or debounce(func, wait) was called
DebounceInit ==
  /\ UtilPage
  /\ wrapped \in {w \in [kind : {"debounce"}, rev : DebounceRevisions,
                          wait : Waits, immediate : BOOLEAN] :
                    w.rev = "navigation" => ~w.immediate}

DebounceNext ==
  \/ Tick
  \/ \E argument \in Arguments : CallWrapped(argument)
  \/ LaterFires

DebounceSpec == DebounceInit /\ [][DebounceNext]_vars

\* throttle(func, limit) of utils.js or of main.js was called
ThrottleInit ==
  /\ UtilPage
  /\ wrapped \in [kind : {"throttle"}, rev : {"utils", "main"},
                   wait : Waits, immediate : {FALSE}]

ThrottleNext ==
  \/ Tick
  \/ \E argument \in Arguments : CallWrapped(argument)
  \/ ThrottleTimerFires

ThrottleSpec == ThrottleInit /\ [][ThrottleNext]_vars

(***************************************************************************)
(* Vocabulary of the properties                                            *)
(***************************************************************************)
Paths == COMPONENT_PATHS(rev)

Settled(n) == loadPc[n] = "done"

\* the container of n holds fallback markup made for n
HoldsFallback(n) ==
  innerHTML[n] \in {<<"fallback", n>>, <<"generic", n>>}

\* the load of n settled without injecting the fetched fragment
LoadFailed(n) == Settled(n) /\ innerHTML[n] # <<"html", n>>

\* n's load settles in this step
Settles(n) == loadPc[n] = "fetch" /\ loadPc'[n] = "done"

(***************************************************************************)
(* C1: all fragment loads are issued together, a load in flight can always *)
(* settle whatever the others did, the settling of one load changes        *)
(* nothing of any other load, and a load whose fetch succeeds into an      *)
(* existing container is injected whatever the others did.                 *)
(***************************************************************************)
C1_IndependentLoads ==
  /\ [](pc # "start" =>
          \A n \in Paths :
            /\ loadPc[n] \in {"fetch", "done"}
            /\ loadPc[n] = "fetch" =>
                 /\ promise[n] = "pending"
                 /\ ENABLED FetchSettles(n, "ok")
                 /\ ENABLED FetchSettles(n, "network_error"))
  /\ [][\A n \in Paths :
          Settles(n) =>
            /\ \A m \in Paths \ {n} :
                 /\ loadPc'[m] = loadPc[m]
                 /\ promise'[m] = promise[m]
                 /\ innerHTML'[m] = innerHTML[m]
            /\ (promise'[n] = "fulfilled_true") = (innerHTML'[n] = <<"html", n>>)
       ]_vars

\* one fragment was loaded and injected although every other one failed
C1_Witness ==
  \E m \in Paths :
    /\ promise[m] = "fulfilled_true"
    /\ innerHTML[m] = <<"html", m>>
    /\ \A n \in Paths \ {m} : promise[n] = "fulfilled_false"

C3_ReadyAfterAllSettled ==
  /\ ~isLoaded
  /\ [](isLoaded =>
          \A n \in Paths :
            Settled(n) /\ promise[n] \in {"fulfilled_true", "fulfilled_false"})
  /\ []((\E n \in Paths : promise[n] = "pending") => ~isLoaded)
  /\ [][isLoaded => isLoaded']_vars

\* ready after a mixed outcome
C3_Witness ==
  /\ isLoaded
  /\ \E n \in Paths : promise[n] = "fulfilled_false"
  /\ \E n \in Paths : promise[n] = "fulfilled_true"
  /\ mainContent = "shown"

(***************************************************************************)
(* C4: a fragment whose load failed and whose container exists holds       *)
(* non-empty fallback markup made for that name once the load has settled. *)
(***************************************************************************)
C4_FallbackNeverBlank ==
  \A n \in Paths :
    (Settled(n) /\ promise[n] # "fulfilled_true" /\ hasContainer[n]) =>
      /\ innerHTML[n] # Empty
      /\ HoldsFallback(n)

\* components_b: hero failed into the generic placeholder, about into its own
C4_Witness ==
  /\ rev = "components_b"
  /\ innerHTML["hero"] = <<"generic", "hero">>
  /\ innerHTML["about"] = <<"fallback", "about">>
  /\ promise["hero"] = "fulfilled_false"

(***************************************************************************)
(* C5: when loadAllComponents reports, the success count is N - K and the  *)
(* total is N, where K counts the loads that did not inject their fragment;*)
(* and loadAllComponents never rejects.                                    *)
(***************************************************************************)
FailedLoads == {n \in Paths : ~hasContainer[n] \/ innerHTML[n] # <<"html", n>>}

C5_SuccessCount ==
  /\ pageError # "loadAllComponents"
  /\ summary.returned =>
       /\ summary.totalComponents = Cardinality(Paths)
       /\ summary.successCount + Cardinality(FailedLoads) = Cardinality(Paths)
       /\ summary.warned = Cardinality(FailedLoads)

\* N = 8, K = 3
C5_Witness ==
  /\ summary.returned
  /\ summary.totalComponents = 8
  /\ summary.successCount = 5
  /\ Cardinality(FailedLoads) = 3

(***************************************************************************)
(* C6 as stated: when the container of a fragment is missing, that name's  *)
(* fallback markup is installed, as on a network failure.                  *)
(***************************************************************************)
C6_Original ==
  \A n \in Paths : (Settled(n) /\ ~hasContainer[n]) => HoldsFallback(n)

(***************************************************************************)
(* C6 amended: when the container of a fragment is missing, the load takes *)
(* the failure path of a network failure (it resolves to false, the error  *)
(* is logged, components_a/b record {loaded: false, error}), but           *)
(* loadFallbackComponent installs nothing.                                 *)
(***************************************************************************)
C6_MissingContainer ==
  \A n \in Paths :
    (Settled(n) /\ ~hasContainer[n]) =>
      /\ promise[n] = "fulfilled_false"
      /\ <<"error", "load_error", n>> \in console
      /\ <<"log", "fallback", n>> \notin console
      /\ innerHTML[n] = Empty
      /\ rev # "main" =>
           /\ components[n].kind = "status"
           /\ ~components[n].loaded
           /\ components[n].error # "null"

\* a fetch that succeeded for a name whose container is missing
C6_Witness ==
  \E n \in Paths :
    /\ Settled(n)
    /\ ~hasContainer[n]
    /\ components[n].error = "container_not_found_message"

C8_OwnFallbackForEveryName ==
  \A n \in Paths :
    (LoadFailed(n) /\ hasContainer[n]) => innerHTML[n] = <<"fallback", n>>

(***************************************************************************)
(* C9: a failing load never rejects: it resolves to false, logs the error, *)
(* leaves fallback markup in its container, and loadAllComponents emits    *)
(* the console warning when it reports; the page handler never sees the    *)
(* exception.                                                              *)
(***************************************************************************)
C9_FailureCaughtPerFragment ==
  /\ pageError # "loadAllComponents"
  /\ \A n \in Paths :
       /\ promise[n] # "rejected"
       /\ LoadFailed(n) =>
            /\ promise[n] = "fulfilled_false"
            /\ <<"error", "load_error", n>> \in console
            /\ hasContainer[n] => HoldsFallback(n)
            /\ summary.returned => <<"warn", "components_failed", "">> \in console
  /\ (\A n \in Paths : promise[n] = "fulfilled_true") =>
       <<"warn", "components_failed", "">> \notin console

\* the loader has reported after a fetch failure with fallback installed
C9_Witness ==
  /\ summary.returned
  /\ <<"warn", "components_failed", "">> \in console
  /\ \E n \in Paths : hasContainer[n] /\ promise[n] = "fulfilled_false"
                      /\ HoldsFallback(n)

(***************************************************************************)
(* C10: the loading screen shows the "refresh the page" message only when  *)
(* initialization threw, never because of fragment failures, and never on  *)
(* a page that has signalled readiness; a ready page never shows it.       *)
(***************************************************************************)
C10_FailureOnlyWhenInitThrows ==
  /\ [](loadingScreen = "error_message" <=> pc = "failed")
  /\ [](pc = "failed" =>
          /\ pageError = "initializeApp"
          /\ summary.returned
          /\ ~isLoaded)
  /\ [](isLoaded => pageError = "none" /\ loadingScreen # "error_message")
  /\ [][(pc = "failed" => pc' = "failed" /\ ~isLoaded')
        /\ (isLoaded => loadingScreen' # "error_message")]_vars

\* the failure state, reached although every fragment loaded
C10_Witness ==
  /\ pc = "failed"
  /\ loadingScreen = "error_message"
  /\ \A n \in Paths : promise[n] = "fulfilled_true"


(***************************************************************************)
(* C12: in components.js, once every load has settled App.components holds *)
(* a status entry for every name of COMPONENT_PATHS; an entry has          *)
(* loaded = true exactly when its error is null; a load that injected its  *)
(* fragment recorded {loaded: true, error: null}, a load that failed       *)
(* recorded {loaded: false, error: <the message of the error>}.            *)
(***************************************************************************)
C12_StatusMap ==
  rev # "main" =>
    /\ \A n \in Paths :
         /\ components[n].kind = "status" =>
              (components[n].loaded <=> components[n].error = "null")
         /\ Settled(n) <=> components[n].kind = "status"
         /\ promise[n] = "fulfilled_true" =>
              components[n] = [kind |-> "status", loaded |-> TRUE,
                               error |-> "null"]
         /\ promise[n] \in {"fulfilled_false", "rejected"} =>
              /\ ~components[n].loaded
              /\ components[n].error \in {"fetch_error_message",
                                          "container_not_found_message"}
    /\ allSettled(rev, promise) =>
         \A n \in Paths : components[n].kind = "status"

\* the loader has settled with both kinds of entry in the map
C12_Witness ==
  /\ rev = "components_b"
  /\ pc = "ready"
  /\ components["about"] = [kind |-> "status", loaded |-> TRUE,
                            error |-> "null"]
  /\ components["skills"] = [kind |-> "status", loaded |-> FALSE,
                             error |-> "fetch_error_message"]
  /\ components["hero"].error = "container_not_found_message"


(***************************************************************************)
(* C16: the loader fetches each fragment path exactly once per page load   *)
(* and never again: every further fetch of a path belongs to a             *)
(* reloadComponent call made from outside, and a load that has settled     *)
(* (failed or not) is never restarted.                                     *)
(***************************************************************************)
C16_NoRetries ==
  /\ [](\A n \in AllNames :
          fetches[n] = (IF n \in Paths /\ pc # "start" THEN 1 ELSE 0)
                       + (IF n \in Paths THEN reloads[n] ELSE 0))
  /\ [][\A n \in AllNames :
          /\ fetches'[n] > fetches[n] =>
               (pc = "start" \/ reloads'[n] > reloads[n])
          /\ Settled(n) => (loadPc'[n] = "done" /\ promise'[n] = promise[n])
       ]_vars

\* a failed load stays failed until the explicit reload fetches it again
C16_Witness ==
  /\ promise["hero"] = "fulfilled_false"
  /\ reloads["hero"] = 1
  /\ fetches["hero"] = 2
  /\ reloadPc["hero"] = "true"
  /\ innerHTML["hero"] = <<"html", "hero">>


(***************************************************************************)
(* C13 as stated: two toggles in succession return the data-theme          *)
(* attribute the toggle writes and the stored 'theme' value to the values  *)
(* they had before the first toggle, from any starting state.              *)
(***************************************************************************)
\* the data-theme attribute the toggling code reads or writes first
ToggledAttr(by, data) == IF by = "header" THEN data.body ELSE data.root

C13_Original ==
  toggleRun.count = 2 =>
    /\ ToggledAttr(toggleRun.by, dataTheme) = ToggledAttr(toggleRun.by, toggleRun)
    /\ localStorage["theme"] = toggleRun.stored

(***************************************************************************)
(* C13 amended: two toggles in succession leave the data-theme attribute   *)
(* the toggle writes and the stored 'theme' value equal to the theme that  *)
(* was current before the first toggle (after one toggle: to the other     *)
(* theme); so each is returned to its previous value exactly when that     *)
(* value already was the current theme, and a stored value or attribute    *)
(* that was absent or different is set, not restored.                      *)
(***************************************************************************)
C13_DoubleToggle ==
  /\ toggleRun.count = 1 =>
       /\ toggleRun.read \in ThemeNames
       /\ ToggledAttr(toggleRun.by, dataTheme) = newTheme(toggleRun.read)
       /\ localStorage["theme"] = newTheme(toggleRun.read)
       /\ newTheme(toggleRun.read) \in ThemeNames \ {toggleRun.read}
  /\ toggleRun.count = 2 =>
       /\ ToggledAttr(toggleRun.by, dataTheme) = toggleRun.read
       /\ localStorage["theme"] = toggleRun.read
       /\ toggleRun.by = "theme" =>
            (ThemeSystem.currentTheme = toggleRun.read
             /\ dataTheme.body = toggleRun.read)
       /\ (localStorage["theme"] = toggleRun.stored)
            <=> (toggleRun.stored = toggleRun.read)
       /\ (ToggledAttr(toggleRun.by, dataTheme)
             = ToggledAttr(toggleRun.by, toggleRun))
            <=> (ToggledAttr(toggleRun.by, toggleRun) = toggleRun.read)

\* first visit: light -> dark -> light, and 'theme' is now stored
C13_Witness ==
  /\ toggleRun.count = 2
  /\ toggleRun.by = "theme"
  /\ toggleRun.read = "light"
  /\ toggleRun.root = "light"
  /\ toggleRun.stored = Null
  /\ dataTheme.root = "light"
  /\ localStorage["theme"] = "light"

(***************************************************************************)
(* C15 as stated: after initialization and after any toggleTheme or saving *)
(* setTheme call the in-memory theme, data-theme on root and body and the  *)
(* stored 'theme' are all equal and one of light and dark.                 *)
(***************************************************************************)
ThemeConsistent ==
  /\ ThemeSystem.currentTheme \in ThemeNames
  /\ dataTheme.root = ThemeSystem.currentTheme
  /\ dataTheme.body = ThemeSystem.currentTheme
  /\ localStorage["theme"] = ThemeSystem.currentTheme

C15_Original ==
  (ThemeSystem.isInitialized
   /\ lastOp \in {"initializeThemeSystem", "toggleTheme", "setTheme"})
    => ThemeConsistent

(***************************************************************************)
(* C15 amended: after every toggleTheme or saving setTheme call the        *)
(* in-memory theme, data-theme on root and body and the stored 'theme' are *)
(* all equal and one of light and dark.  Initialization alone writes       *)
(* neither attribute nor the stored value: it only sets the in-memory      *)
(* theme to root data-theme || stored 'theme' || system theme.             *)
(***************************************************************************)
C15_ConsistentAfterSet ==
  /\ [](lastOp \in {"toggleTheme", "setTheme"} => ThemeConsistent)
  /\ [][(~ThemeSystem.isInitialized /\ ThemeSystem'.isInitialized) =>
          /\ dataTheme' = dataTheme
          /\ localStorage' = localStorage
          /\ ThemeSystem'.currentTheme =
               Or(dataTheme.root, Or(localStorage["theme"], systemTheme))
          /\ ThemeSystem'.currentTheme \in ThemeNames
       ]_vars

\* the initialized theme system after a toggle to dark
C15_Witness ==
  /\ ThemeSystem.isInitialized
  /\ lastOp = "toggleTheme"
  /\ ThemeSystem.currentTheme = "dark"
  /\ dataTheme = [root |-> "dark", body |-> "dark"]
  /\ localStorage["theme"] = "dark"

(***************************************************************************)
(* C17: a step changes the value of a local-storage key only if the key is *)
(* theme, company-theme, show-hobbies, show-photo or begins with resume_   *)
(* (in fact show-hobbies and show-photo are only read); clearStorage       *)
(* removes every key that begins with resume_ and changes no other key.    *)
(***************************************************************************)
C17_StorageFrame ==
  [][/\ \A k \in StorageKeys :
          localStorage'[k] # localStorage[k] =>
            /\ k \in {"theme", "company-theme", "show-hobbies", "show-photo"}
                 \/ startsWith(k, "resume_")
            /\ k \notin {"show-hobbies", "show-photo"}
     /\ (\E prefix \in Prefixes : CallClearStorage(prefix)) =>
          \A k \in StorageKeys :
            localStorage'[k] = IF startsWith(k, "resume_") THEN Null
                               ELSE localStorage[k]
    ]_vars

\* the utility key is gone, the preference keys and the foreign key are not
C17_Witness ==
  /\ localStorage["resume_visits"] = Null
  /\ localStorage["visits"] = "true"
  /\ localStorage["show-hobbies"] = "true"
  /\ localStorage["show-photo"] = "true"
  /\ localStorage["theme"] = "dark"
  /\ localStorage["company-theme"] = "acme"


(***************************************************************************)
(* C14: the carousel index wraps for every way the photo list is loaded    *)
(* (embedded JSON, unparsable JSON, default photos): a click on prev at    *)
(* index 0 leaves the current index at the last photo, a click on next at  *)
(* the last photo leaves it at index 0.  (One listener per button: the     *)
(* click is one navigateToPhoto call.)                                     *)
(***************************************************************************)
C14_IndexWraps ==
  (/\ lastClick.target \in {"prev", "next"}
   /\ lastClick.calls = 1
   /\ CarouselState.initialized)
  => /\ (lastClick.target = "prev" /\ lastClick.before = 0)
          => lastClick.after = CarouselState.photos - 1
     /\ (lastClick.target = "next"
          /\ lastClick.before = CarouselState.photos - 1)
          => lastClick.after = 0


(***************************************************************************)
(* C18: navigation is wired exactly once per page load: once all           *)
(* initialization timers have fired, one click on the mobile-menu toggle   *)
(* runs one listener and changes the menu's open state once.               *)
(***************************************************************************)
C18_MenuWiredOnce ==
  (lastClick.target = "menu" /\ lastClick.drained)
  => /\ lastClick.calls = 1
     /\ lastClick.after # lastClick.before

(***************************************************************************)
(* C19: the carousel's setup runs at most once per page load across all of *)
(* its triggers, so the prev and next buttons carry at most one click      *)
(* listener and one click is one navigateToPhoto call.                     *)
(***************************************************************************)
C19_CarouselSetUpOnce ==
  /\ carouselListeners <= 1
  /\ lastClick.target \in {"prev", "next"} => lastClick.calls <= 1

(***************************************************************************)
(* C20: interactions are wired exactly once per page load: the expand      *)
(* button carries at most one click listener, and one click made once all  *)
(* initialization timers have fired results, when its debounce timers have *)
(* fired, in exactly one toggle of the item.                               *)
(***************************************************************************)
C20_InteractionsWiredOnce ==
  /\ expandListeners <= 1
  /\ (lastClick.target = "expand" /\ lastClick.drained
      /\ pendingToggles = 0)
     => lastClick.calls = 1

C22_AnimationsEventuallyInitialize == isLoaded ~> animationsInitialized


C24_ClosingEventsClose ==
  lastMenuEvent \in ClosingControls
                     \cup {"escape", "swipeLeft", "resizeToDesktop"}
    => /\ ~mobileMenuOpen
       /\ menuDom.bodyOverflow = ""


\* C25: once the visitor has scrolled and no throttled update is pending,
\* NavigationState.activeSection is the section holding scrollTop + header
\* height ('' below scrollTop 100) and exactly the nav links to it carry
\* 'active', whatever the observer's callbacks did in between
C25_ActiveSectionFollowsScroll ==
  (scrolls > 0 /\ \A l \in ScrollListeners : ~scrollTimeouts[l])
    => /\ activeSection = scrollSection(scrollTop)
       /\ activeLinks = linksOf(scrollSection(scrollTop))


\* C26: once the carousel is initialized, totalPhotos is the length of the
\* photo list and the current index designates one of its photos
C26_IndexDesignatesPhoto ==
  CarouselState.initialized
    => /\ CarouselState.totalPhotos = CarouselState.photos
       /\ 0 <= CarouselState.currentIndex
       /\ CarouselState.currentIndex < CarouselState.photos

\* C27: CarouselState.isPlaying is true exactly when autoPlayInterval holds
\* a handle, and the browser runs that interval and no other
C27_PlayingIffInterval ==
  /\ CarouselState.isPlaying = (CarouselState.autoPlayInterval # Null)
  /\ liveIntervals = IF CarouselState.isPlaying THEN 1 ELSE 0

\* autoplay was toggled on and runs
C27_Witness ==
  /\ CarouselState.isPlaying
  /\ liveIntervals = 1
  /\ CarouselState.currentIndex = 1

\* C28: from a manual navigation until autoplay is toggled on again,
\* autoplay is paused and no interval is left to tick
C28_ManualNavigationPauses ==
  navigatedWhile # "none"
    => /\ ~CarouselState.isPlaying
       /\ CarouselState.autoPlayInterval = Null
       /\ liveIntervals = 0

\* a manual navigation met running autoplay and paused it
C28_Witness ==
  /\ navigatedWhile = "playing"
  /\ ~CarouselState.isPlaying
  /\ liveIntervals = 0


\* C29: once every timer has fired, an item with a title of its own is in
\* expandedItems exactly when its content is displayed with aria-hidden
\* 'false' and its button carries aria-expanded 'true'
C29_ExpandStateAgreesWithDom ==
  (cleanupTimers = <<>> /\ pendingToggles = 0 /\ toggles > 0)
    => \A i \in Items :
         (itemTitle[i] # 0 /\ \A j \in Items \ {i} : itemTitle[j] # itemTitle[i])
           => /\ TreatedExpanded(i, expandedItems)
                   = (itemDom[i].displayed /\ itemDom[i].ariaHidden = "false")
              /\ itemOp[i] # "none"
                   => TreatedExpanded(i, expandedItems)
                        = (itemDom[i].ariaExpanded = "true")

\* C30: a toggle of one item leaves every other item treated as expanded
\* or not as before, and the toggle that follows an expansion of an item
\* collapses it
C30_ToggleTouchesOneItem ==
  lastToggle.item # 0
    => /\ ~lastToggle.othersChanged
       /\ lastToggle.prevOp = "expand" => lastToggle.op = "collapse"


\* C31: a click on a copy button whose data-copying is 'true' is ignored
\* and any other click is accepted once; the flag is 'true' as long as the
\* copy or its 500 ms timer is pending; every accepted click has shown one
\* toast once its listener is through; and a flag that is 'true' is
\* 'false' again later
C31_CopyOncePerClick ==
  /\ [](lastCopy.button # 0
          => lastCopy.accepted = IF lastCopy.flag = "true" THEN 0 ELSE 1)
  /\ [](\A b \in CopyButtons :
          /\ (copyRun[b] > 0 \/ resetTimers[b] > 0) => copying[b] = "true"
          /\ copyLog[b].toasts + copyRun[b] = copyLog[b].accepted
          /\ copyRun[b] + resetTimers[b] <= 1)
  /\ \A b \in CopyButtons : (copying[b] = "true") ~> (copying[b] = "false")

\* a button with two listeners took a click, showed its one toast, and a
\* second click while the flag was 'true' was ignored
C31_Witness ==
  /\ copyListeners = 2
  /\ lastCopy.button # 0
  /\ lastCopy.flag = "true"
  /\ lastCopy.accepted = 0
  /\ copyLog[lastCopy.button].accepted = 1
  /\ copyLog[lastCopy.button].toasts = 1

\* the duration a toast was shown with; 0 for an id not shown yet
DurationOf(toastId) ==
  IF \E k \in DOMAIN shown : shown[k].id = toastId
  THEN shown[CHOOSE k \in DOMAIN shown : shown[k].id = toastId].duration
  ELSE 0

\* C32: a toast shown with a duration above 0 leaves the map and the page
\* later, whatever else hides it; hide for an id that is not in the map
\* changes nothing; a toast of duration 0 stays in the map and on the page
\* until a click or a call hides it; show never returns an id twice
C32_ToastLifecycle ==
  /\ \A toastId \in 1 .. MaxToasts :
       (toastId \in toasts /\ DurationOf(toastId) > 0)
         ~> (toastId \notin toasts /\ toastId \notin toastDom)
  /\ [](~lastHide.known => ~lastHide.changed)
  /\ [](\A k \in DOMAIN shown :
          (shown[k].duration = 0 /\ shown[k].id \notin explicitHides)
            => (shown[k].id \in toasts /\ shown[k].id \in toastDom))
  /\ [](\A j, k \in DOMAIN shown : j # k => shown[j].id # shown[k].id)

\* a toast with a duration was closed by a click, removed, and its
\* auto-hide timer then found it gone; a toast of duration 0 is still shown
C32_Witness ==
  /\ \E toastId \in 1 .. MaxToasts :
       /\ DurationOf(toastId) > 0
       /\ toastId \in explicitHides
       /\ toastId \notin toasts
       /\ toastId \notin toastDom
       /\ lastHide = [id |-> toastId, known |-> FALSE, changed |-> FALSE]
  /\ \E k \in DOMAIN shown :
       shown[k].duration = 0 /\ shown[k].id \in toastDom


\* the first call, or one at least the wait after the call before it
FirstOfBurst(k) ==
  k = 1 \/ utilCalls[k].time - utilCalls[k - 1].time >= wrapped.wait

\* the last call so far, or one at least the wait before the next
LastOfBurst(k) ==
  k = Len(utilCalls)
    \/ utilCalls[k + 1].time - utilCalls[k].time >= wrapped.wait

\* what the claim expects of the calls from the k-th on: with immediate
\* one invocation at the first call of a burst, otherwise one the wait
\* after its last call, with that call's arguments
RECURSIVE ExpectedOfDebounce(_)
ExpectedOfDebounce(k) ==
  IF k > Len(utilCalls) THEN <<>>
  ELSE LET call == utilCalls[k]
           here == IF wrapped.immediate
                   THEN IF FirstOfBurst(k) THEN <<call>> ELSE <<>>
                   ELSE IF LastOfBurst(k)
                           /\ call.time + wrapped.wait <= clock
                        THEN <<[time |-> call.time + wrapped.wait,
                                argument |-> call.argument]>>
                        ELSE <<>>
       IN  here \o ExpectedOfDebounce(k + 1)

\* C33: when no timer is due, the underlying function of a debounce was
\* invoked once per burst of calls less than the wait apart: the wait
\* after the last call of the burst with its arguments, or with immediate
\* at the first call
C33_DebounceOncePerBurst ==
  (wrapped.kind = "debounce" /\ NoTimerDue)
    => utilInvoked = ExpectedOfDebounce(1)

\* two bursts, the first of two calls with different arguments, each
\* invoked once, after the wait
C33_Witness ==
  /\ wrapped.kind = "debounce"
  /\ ~wrapped.immediate
  /\ Len(utilCalls) >= 3
  /\ utilCalls[1].argument # utilCalls[2].argument
  /\ utilCalls[2].time > utilCalls[1].time
  /\ ~FirstOfBurst(2)
  /\ FirstOfBurst(3)
  /\ Len(utilInvoked) = 2
  /\ NoTimerDue

\* what the claim expects of the calls from the k-th on, the last
\* invocation before them being at `last` (-1: none): a call is invoked
\* at once unless it comes less than the limit after an invoked call
RECURSIVE ExpectedOfThrottle(_, _)
ExpectedOfThrottle(k, last) ==
  IF k > Len(utilCalls) THEN <<>>
  ELSE IF last >= 0 /\ utilCalls[k].time - last < wrapped.wait
       THEN ExpectedOfThrottle(k + 1, last)
       ELSE <<utilCalls[k]>> \o ExpectedOfThrottle(k + 1, utilCalls[k].time)

\* C34: the underlying function of a throttle was invoked at the calls
\* that do not come less than the limit after an invoked call, at the time
\* of the call, and at no other time; two invocations are at least the
\* limit apart
C34_ThrottleOncePerLimit ==
  wrapped.kind = "throttle"
    => /\ utilInvoked = ExpectedOfThrottle(1, -1)
       /\ \A j, k \in DOMAIN utilInvoked :
            j < k => utilInvoked[k].time - utilInvoked[j].time >= wrapped.wait

\* a call was invoked, one inside the limit was dropped, and a later one
\* was invoked again
C34_Witness ==
  /\ wrapped.kind = "throttle"
  /\ Len(utilCalls) >= 3
  /\ Len(utilInvoked) = 2
  /\ utilInvoked[1] = utilCalls[1]
  /\ utilInvoked[2] = utilCalls[3]
  /\ utilCalls[2].time > utilCalls[1].time


\* C35: a change of the system colour scheme leaves the stored 'theme' as
\* it is, absent if it was absent, and leaves the theme alone when one is
\* stored; setTheme(t, false) leaves localStorage as it is
C35_SystemChangeNeverSaves ==
  /\ [][systemTheme' # systemTheme
          => /\ localStorage'["theme"] = localStorage["theme"]
             /\ Truthy(localStorage["theme"])
                  => /\ ThemeSystem'.currentTheme = ThemeSystem.currentTheme
                     /\ dataTheme' = dataTheme]_vars
  /\ [](\A t \in ThemeArguments :
          setTheme(ThemePage, t, FALSE).localStorage = localStorage)

\* the system changed its colour scheme with no theme stored: the page
\* follows it and still has no theme stored
C35_Witness ==
  /\ lastOp = "systemChange"
  /\ ThemeSystem.isInitialized
  /\ localStorage["theme"] = Null
  /\ ThemeSystem.currentTheme = systemTheme
  /\ dataTheme.root = systemTheme
  /\ dataTheme.body = systemTheme


\* script.onerror of the carousel script ran
ScriptFailed == <<"warn", "carousel_failed", "">> \in console

MinimumScreenTime == 800

\* C37: whenever the DOMContentLoaded handler runs to its end without
\* throwing (it has set App.isLoaded), the loading screen is eventually
\* hidden and the main content eventually revealed; the main content is
\* revealed only by a handler that ran to its end, and not before 800 ms
\* have passed since its call of hideLoadingScreen; once the handler has
\* thrown (handleLoadError ran) the main content is hidden and stays hidden.
C37_ScreenHiddenAfterInit ==
  /\ isLoaded ~> (loadingScreen = "hidden" /\ mainContent = "shown")
  /\ [](mainContent = "shown"
         => /\ pc = "ready"
            /\ isLoaded
            /\ screenElapsed >= MinimumScreenTime)
  /\ [](pc = "failed" => [](mainContent = "hidden"))

\* the handler ran to its end, both timers have fired, the main content is
\* revealed 1100 ms after hideLoadingScreen was called
C37_Witness ==
  /\ pc = "ready"
  /\ isLoaded
  /\ loadingScreen = "hidden"
  /\ mainContent = "shown"
  /\ screenElapsed = 1100
  /\ timers \cap {"hideDelay", "hideFade"} = {}

====
